---- MODULE Spec2Model ----
(***************************************************************************)
(* Verification model of the DeFi yield aggregator.                        *)
(*                                                                         *)
(* Part I  - the WebSocket fan-out hub of the API server                   *)
(*           (internal/api/websocket: Hub, Client, Handler) and the API    *)
(*           server's shutdown path (cmd/server main).                     *)
(* Part II - the background worker (cmd/worker main): the cron scheduler,  *)
(*           the opportunity detection job, the opportunity store.         *)
(***************************************************************************)
EXTENDS Integers, Sequences, FiniteSets, TLC

(***************************************************************************)
(* Bounds of the model.                                                    *)
(***************************************************************************)
\* Number of connection objects (NewClient calls) over a run.
NumClients == 2
\* Capacity of a client's Send channel.  The code allocates 256 slots
\* (hub.go:265); the model scales the capacity down, nothing in the hub
\* depends on its value.
SendCap == 1

\* Number of connection objects over a run on which progress is checked.
NumLiveClients == 1

\* Number of pool ids the upstream provider reports.
NumPools == 2
\* Number of detection passes the cron scheduler starts over a run (the
\* start-up pass comes on top).
MaxCronRuns == 1
\* Last instant of the clock, in hours.
MaxTime == 2

Client == 1..NumClients
Topic == {"pool", "opp"}
\* A frame on a Send channel: the envelope type it carries (hub.go:20-27).
\* A topic Broadcast puts an envelope of its own type on the queue,
\* handleMessage a pong.
Pong == "pong"
Envelope(t) == IF t = "pool" THEN "pool_update" ELSE "opportunity_alert"

VARIABLES
    \* ---- Hub (hub.go:47-68) ----
    clients,            \* h.clients
    poolClients,        \* h.poolClients
    opportunityClients, \* h.opportunityClients
    hubpc,              \* position of Hub.Run: "select", "register", "unregister"
    hubArg,             \* the client Hub.Run received from h.register / h.unregister
    \* ---- Client (hub.go:37-44) ----
    Send,               \* contents of c.Send
    sendClosed,         \* close(c.Send) has been executed
    connClosed,         \* c.Conn.Close() has been executed
    route,              \* endpoint the connection arrived on: "pool" or "opp"
    handler,            \* position of the connection's handler goroutine (ReadPump)
    writePump,          \* position of the connection's WritePump goroutine
    \* ---- Redis subscriber goroutines (ws handler) ----
    bpc,                \* position of each subscriber goroutine
    btodo,              \* clients the range loop has not visited yet
    bdead,              \* deadClients of the running / last Broadcast
    bsubs,              \* the topic subset when the Broadcast took the read lock
    cancelled,          \* the root context of the API server is cancelled
    bsent,              \* clients the running Broadcast has put its envelope on
    \* ---- observation ----
    panicked            \* a send on, or a second close of, a closed Send channel (Go panics)

hubVars == <<clients, poolClients, opportunityClients, hubpc, hubArg, Send,
             sendClosed, connClosed, route, handler, writePump, bpc, btodo, bdead, bsubs, cancelled, bsent, panicked>>

VARIABLES
    \* ---- worker: PostgreSQL tables ----
    pools,              \* table pools: its rows
    opps,               \* table opportunities: its rows
    \* ---- worker: detection passes (runOpportunityDetectionJob) ----
    jpc,                \* position of each pass
    jpending,           \* the slice a scan returned, not yet saved
    jUpserted,          \* ids whose UpsertOpportunity succeeded in the pass
    jPublished,         \* ids the pass called PublishOpportunityAlert for
    cronRuns,           \* passes the scheduler has started
    nextId,             \* per pass, the next identifier uuid.New() hands out
    now                 \* wall clock, in hours

workerVars == <<pools, opps, jpc, jpending, jUpserted, jPublished, cronRuns,
                nextId, now>>

VARIABLES
    \* ---- worker: main and its goroutines ----
    mainpc,             \* position of main: "wait", "signalled", "stopping", "exited"
    startup,            \* position of main's start-up goroutine
    started,            \* per cron entry, the runs the scheduler has started
    finished,           \* per cron entry, the runs that have returned
    \* ---- worker: runs of runDeFiLlamaJob, step by step ----
    ipc,                \* position of each run
    ibatch,             \* modelPools of the run
    itodo,              \* what the running loop of the run has not visited yet
    iUpserted,          \* pool ids whose UpsertPool succeeded in the run
    iFailed,            \* pool ids the run logged "Failed to upsert pool" for
    iPublished,         \* pool ids the run called PublishPoolUpdate for
    iInvalidated,       \* the run has called InvalidateAllPoolsCache
    \* ---- a function under test ----
    fnArg,              \* its arguments
    fnRes,              \* its result, once it has returned
    \* ---- Hub.Run, case message := <-h.broadcast ----
    deadClients         \* deadClients of that case

mainVars == <<mainpc, startup, started, finished>>
ingestVars == <<ipc, ibatch, itodo, iUpserted, iFailed, iPublished,
               iInvalidated>>
evalVars == <<fnArg, fnRes>>

\* What neither the hub's nor the detection passes' steps touch.
sideVars == <<mainVars, ingestVars, evalVars, deadClients>>

vars == <<hubVars, workerVars, sideVars>>

(***************************************************************************)
(* Part I.  The hub.                                                       *)
(***************************************************************************)

\* h.mu is free for a writer: no Broadcast holds the read lock.  Writers
\* hold the lock for one critical section, which the model takes atomically.
LockFree == \A t \in Topic : bpc[t] # "iter"

TopicSet(t) == IF t = "pool" THEN poolClients ELSE opportunityClients

InitHub ==
    /\ clients = {}
    /\ poolClients = {}
    /\ opportunityClients = {}
    /\ hubpc = "select"
    /\ hubArg = 0
    /\ Send = [c \in Client |-> <<>>]
    /\ sendClosed = [c \in Client |-> FALSE]
    /\ connClosed = [c \in Client |-> FALSE]
    /\ route = [c \in Client |-> "pool"]
    /\ handler = [c \in Client |-> "idle"]
    /\ writePump = [c \in Client |-> "none"]
    /\ bpc = [t \in Topic |-> "listen"]
    /\ btodo = [t \in Topic |-> {}]
    /\ bdead = [t \in Topic |-> {}]
    /\ bsubs = [t \in Topic |-> {}]
    /\ cancelled = FALSE
    /\ bsent = [t \in Topic |-> {}]
    /\ panicked = FALSE

\* The worker, not started.
IdleWorker ==
    /\ pools = {}
    /\ opps = {}
    /\ jpc = [j \in 0..MaxCronRuns |-> "idle"]
    /\ jpending = [j \in 0..MaxCronRuns |-> <<>>]
    /\ jUpserted = [j \in 0..MaxCronRuns |-> {}]
    /\ jPublished = [j \in 0..MaxCronRuns |-> {}]
    /\ cronRuns = 0
    /\ nextId = [j \in 0..MaxCronRuns |-> 1]
    /\ now = 0

\* A cron entry of the worker's scheduler.
Entry == {"defillama", "coingecko", "detection"}

\* main of the worker once it waits for a signal: the scheduler is started,
\* the start-up goroutine is about to fetch.
InitMain ==
    /\ mainpc = "wait"
    /\ startup = "fetch"
    /\ started = [e \in Entry |-> 0]
    /\ finished = [e \in Entry |-> 0]

\* No run of runDeFiLlamaJob has begun.
IdleIngest ==
    /\ ipc = [i \in 0..MaxCronRuns |-> "idle"]
    /\ ibatch = [i \in 0..MaxCronRuns |-> {}]
    /\ itodo = [i \in 0..MaxCronRuns |-> {}]
    /\ iUpserted = [i \in 0..MaxCronRuns |-> {}]
    /\ iFailed = [i \in 0..MaxCronRuns |-> {}]
    /\ iPublished = [i \in 0..MaxCronRuns |-> {}]
    /\ iInvalidated = [i \in 0..MaxCronRuns |-> FALSE]

\* No function is under test.  The result of a call is kept as the set of
\* the one value returned; before the call there is none.
NoValue == {}
IdleEval == fnArg = NoValue /\ fnRes = NoValue

\* Both processes as constructed: the API server's hub without connections,
\* the worker not started.
Init ==
    /\ InitHub
    /\ deadClients = {}
    /\ IdleWorker
    /\ InitMain
    /\ IdleIngest
    /\ IdleEval

\* HandlePoolUpdates / HandleOpportunityAlerts: a connection is upgraded on
\* one of the two endpoints, gets a fresh Client (NewClient) and executes
\* `h.hub.register <- client`: the unbuffered channel hands the client to
\* Hub.Run when Hub.Run is in its select; the handler goes on at once.
Connect(c, t) ==
    /\ ~cancelled
    /\ handler[c] = "idle"
    /\ hubpc = "select"
    /\ hubpc' = "register"
    /\ hubArg' = c
    /\ handler' = [handler EXCEPT ![c] = "subscribe"]
    /\ route' = [route EXCEPT ![c] = t]
    /\ UNCHANGED <<clients, poolClients, opportunityClients, Send, sendClosed,
                   connClosed, writePump, bpc, btodo, bdead, bsubs, cancelled,
                   bsent, panicked>>
    /\ UNCHANGED <<workerVars, sideVars>>

\* Hub.Run, case client := <-h.register.
HubRegister ==
    /\ hubpc = "register"
    /\ LockFree
    /\ clients' = clients \cup {hubArg}
    /\ hubpc' = "select"
    /\ hubArg' = 0
    /\ UNCHANGED <<poolClients, opportunityClients, Send, sendClosed,
                   connClosed, route, handler, writePump, bpc, btodo,
                   bdead, bsubs, cancelled, bsent, panicked>>
    /\ UNCHANGED <<workerVars, sideVars>>

\* A faulty unregister case that forgets the topic subsets; C12 is tested
\* against it.
UnregisterLeavesTopics(c) ==
    IF c \in clients
    THEN /\ clients' = clients \ {c}
         /\ panicked' = (panicked \/ sendClosed[c])
         /\ sendClosed' = [sendClosed EXCEPT ![c] = TRUE]
         /\ UNCHANGED <<poolClients, opportunityClients>>
    ELSE UNCHANGED <<clients, poolClients, opportunityClients, sendClosed,
                     panicked>>

\* A faulty unregister case without the `if _, ok := h.clients[client]`
\* test; C13 is tested against it.
UnregisterUnguarded(c) ==
    /\ clients' = clients \ {c}
    /\ poolClients' = poolClients \ {c}
    /\ opportunityClients' = opportunityClients \ {c}
    /\ panicked' = (panicked \/ sendClosed[c])
    /\ sendClosed' = [sendClosed EXCEPT ![c] = TRUE]

\* What the unregister case of Hub.Run does to the three sets and the queue.
UnregisterEffect(c) ==
    IF c \in clients
    THEN /\ clients' = clients \ {c}
         /\ poolClients' = poolClients \ {c}
         /\ opportunityClients' = opportunityClients \ {c}
         /\ panicked' = (panicked \/ sendClosed[c])
         /\ sendClosed' = [sendClosed EXCEPT ![c] = TRUE]
    ELSE UNCHANGED <<clients, poolClients, opportunityClients, sendClosed,
                     panicked>>

\* Hub.Run, case client := <-h.unregister.
HubUnregister ==
    /\ hubpc = "unregister"
    /\ LockFree
    /\ UnregisterEffect(hubArg)
    /\ hubpc' = "select"
    /\ hubArg' = 0
    /\ UNCHANGED <<Send, connClosed, route, handler, writePump, bpc, btodo, bdead, bsubs, cancelled, bsent>>
    /\ UNCHANGED <<workerVars, sideVars>>

\* SubscribeToPool / SubscribeToOpportunities, then `go client.WritePump()`
\* and the entry into ReadPump.
Subscribe(c) ==
    /\ handler[c] = "subscribe"
    /\ LockFree
    /\ IF route[c] = "pool"
       THEN /\ poolClients' = poolClients \cup {c}
            /\ UNCHANGED opportunityClients
       ELSE /\ opportunityClients' = opportunityClients \cup {c}
            /\ UNCHANGED poolClients
    /\ handler' = [handler EXCEPT ![c] = "read"]
    /\ writePump' = [writePump EXCEPT ![c] = "run"]
    /\ UNCHANGED <<clients, hubpc, hubArg, Send, sendClosed, connClosed,
                   route, bpc, btodo, bdead, bsubs, cancelled, bsent, panicked>>
    /\ UNCHANGED <<workerVars, sideVars>>

\* ReadPump: ReadMessage returned a well-formed {"type":"ping"} frame;
\* handleMessage is about to execute `c.Send <- responseBytes`.
ClientPing(c) ==
    /\ handler[c] = "read"
    /\ ~connClosed[c]
    /\ handler' = [handler EXCEPT ![c] = "pong"]
    /\ UNCHANGED <<clients, poolClients, opportunityClients, hubpc, hubArg,
                   Send, sendClosed, connClosed, route, writePump, bpc, btodo, bdead, bsubs, cancelled, bsent,
                   panicked>>
    /\ UNCHANGED <<workerVars, sideVars>>

\* handleMessage: `c.Send <- responseBytes`, a blocking send: it proceeds
\* when the channel has room (or panics when the channel is closed).
SendPong(c) ==
    /\ handler[c] = "pong"
    /\ sendClosed[c] \/ Len(Send[c]) < SendCap
    /\ IF sendClosed[c]
       THEN /\ panicked' = TRUE
            /\ UNCHANGED Send
       ELSE /\ Send' = [Send EXCEPT ![c] = Append(@, Pong)]
            /\ UNCHANGED panicked
    /\ handler' = [handler EXCEPT ![c] = "read"]
    /\ UNCHANGED <<clients, poolClients, opportunityClients, hubpc, hubArg,
                   sendClosed, connClosed, route, writePump, bpc, btodo,
                   bdead, bsubs, cancelled, bsent>>
    /\ UNCHANGED <<workerVars, sideVars>>

\* ReadPump: ReadMessage fails because the peer went away, sent a close
\* frame or missed the pong deadline; the loop breaks.
PeerGone(c) ==
    /\ handler[c] = "read"
    /\ ~connClosed[c]
    /\ handler' = [handler EXCEPT ![c] = "unregister"]
    /\ UNCHANGED <<clients, poolClients, opportunityClients, hubpc, hubArg,
                   Send, sendClosed, connClosed, route, writePump, bpc, btodo, bdead, bsubs, cancelled, bsent,
                   panicked>>
    /\ UNCHANGED <<workerVars, sideVars>>

\* ReadPump: ReadMessage fails because WritePump closed the connection.
ReadOnClosedConn(c) ==
    /\ handler[c] = "read"
    /\ connClosed[c]
    /\ handler' = [handler EXCEPT ![c] = "unregister"]
    /\ UNCHANGED <<clients, poolClients, opportunityClients, hubpc, hubArg,
                   Send, sendClosed, connClosed, route, writePump, bpc, btodo, bdead, bsubs, cancelled, bsent,
                   panicked>>
    /\ UNCHANGED <<workerVars, sideVars>>

\* ReadPump's deferred function: `c.Hub.unregister <- c`, then c.Conn.Close().
SendUnregister(c) ==
    /\ handler[c] = "unregister"
    /\ hubpc = "select"
    /\ hubpc' = "unregister"
    /\ hubArg' = c
    /\ handler' = [handler EXCEPT ![c] = "exit"]
    /\ connClosed' = [connClosed EXCEPT ![c] = TRUE]
    /\ UNCHANGED <<clients, poolClients, opportunityClients, Send, sendClosed,
                   route, writePump, bpc, btodo, bdead, bsubs, cancelled, bsent, panicked>>
    /\ UNCHANGED <<workerVars, sideVars>>

\* WritePump, case message, ok := <-c.Send with ok: the frame is written;
\* on a connection that is already closed the write fails and WritePump
\* returns.
WritePumpWrite(c) ==
    /\ writePump[c] = "run"
    /\ Send[c] # <<>>
    /\ Send' = [Send EXCEPT ![c] = Tail(@)]
    /\ IF connClosed[c]
       THEN writePump' = [writePump EXCEPT ![c] = "exit"]
       ELSE UNCHANGED writePump
    /\ UNCHANGED <<clients, poolClients, opportunityClients, hubpc, hubArg,
                   sendClosed, connClosed, route, handler, bpc, btodo,
                   bdead, bsubs, cancelled, bsent, panicked>>
    /\ UNCHANGED <<workerVars, sideVars>>

\* WritePump, case message, ok := <-c.Send with !ok: the channel is closed
\* and drained; a close frame is written and WritePump returns (its deferred
\* function closes the connection).
WritePumpClosed(c) ==
    /\ writePump[c] = "run"
    /\ Send[c] = <<>>
    /\ sendClosed[c]
    /\ writePump' = [writePump EXCEPT ![c] = "exit"]
    /\ connClosed' = [connClosed EXCEPT ![c] = TRUE]
    /\ UNCHANGED <<clients, poolClients, opportunityClients, hubpc, hubArg,
                   Send, sendClosed, route, handler, bpc, btodo, bdead,
                   bsubs, cancelled, bsent, panicked>>
    /\ UNCHANGED <<workerVars, sideVars>>

\* WritePump: a write to the peer fails (a text frame taken from the queue,
\* or the ticker's ping); WritePump returns and closes the connection.
WritePumpError(c) ==
    /\ writePump[c] = "run"
    /\ ~connClosed[c]
    /\ \E took \in BOOLEAN :
          /\ took => Send[c] # <<>>
          /\ Send' = [Send EXCEPT ![c] = IF took THEN Tail(@) ELSE @]
    /\ writePump' = [writePump EXCEPT ![c] = "exit"]
    /\ connClosed' = [connClosed EXCEPT ![c] = TRUE]
    /\ UNCHANGED <<clients, poolClients, opportunityClients, hubpc, hubArg,
                   sendClosed, route, handler, bpc, btodo, bdead, bsubs,
                   cancelled, bsent, panicked>>
    /\ UNCHANGED <<workerVars, sideVars>>

\* Where a Broadcast stands once the range loop has `todo` left to visit and
\* has collected `dead`: in the loop, or past h.mu.RUnlock() (which never
\* waits) at the clean-up block or at its return.
AfterLoop(todo, dead) ==
    IF todo # {} THEN "iter" ELSE IF dead # {} THEN "cleanup" ELSE "ret"

\* subscribeToPoolUpdates / subscribeToOpportunityAlerts, case msg := <-ch:
\* the payload is decoded and BroadcastPoolUpdate / BroadcastOpportunityAlert
\* runs up to the range loop, under h.mu.RLock().
BroadcastBegin(t) ==
    /\ bpc[t] = "listen"
    /\ bpc' = [bpc EXCEPT ![t] = AfterLoop(TopicSet(t), {})]
    /\ btodo' = [btodo EXCEPT ![t] = TopicSet(t)]
    /\ bsubs' = [bsubs EXCEPT ![t] = TopicSet(t)]
    /\ UNCHANGED <<clients, poolClients, opportunityClients, hubpc, hubArg,
                   Send, sendClosed, connClosed, route, handler, writePump,
                   bdead, cancelled, bsent, panicked>>
    /\ UNCHANGED <<workerVars, sideVars>>

\* A blocking `client.Send <- msgBytes` in place of the select with default.
BroadcastEnqueueBlocking(t, c) ==
    /\ sendClosed[c] \/ Len(Send[c]) < SendCap
    /\ IF sendClosed[c]
       THEN /\ panicked' = TRUE
            /\ UNCHANGED <<Send, bsent>>
       ELSE /\ Send' = [Send EXCEPT ![c] = Append(@, Envelope(t))]
            /\ bsent' = [bsent EXCEPT ![t] = @ \cup {c}]
            /\ UNCHANGED panicked
    /\ UNCHANGED bdead

\* The body of the range loop of a topic Broadcast:
\*   select { case client.Send <- msgBytes: default: deadClients = append(..) }
BroadcastEnqueue(t, c) ==
    IF sendClosed[c]
    THEN /\ panicked' = TRUE
         /\ UNCHANGED <<Send, bsent, bdead>>
    ELSE IF Len(Send[c]) < SendCap
    THEN /\ Send' = [Send EXCEPT ![c] = Append(@, Envelope(t))]
         /\ bsent' = [bsent EXCEPT ![t] = @ \cup {c}]
         /\ UNCHANGED <<bdead, panicked>>
    ELSE /\ bdead' = [bdead EXCEPT ![t] = @ \cup {c}]
         /\ UNCHANGED <<Send, bsent, panicked>>

\* One iteration of `for client := range h.poolClients` (or
\* h.opportunityClients) under the read lock; after the last one,
\* h.mu.RUnlock().
BroadcastSend(t) ==
    /\ bpc[t] = "iter"
    /\ \E c \in btodo[t] :
          /\ BroadcastEnqueue(t, c)
          /\ btodo' = [btodo EXCEPT ![t] = @ \ {c}]
    /\ bpc' = [bpc EXCEPT ![t] = AfterLoop(btodo'[t], bdead'[t])]
    /\ UNCHANGED <<clients, poolClients, opportunityClients, hubpc, hubArg,
                   sendClosed, connClosed, route, handler, writePump, bsubs,
                   cancelled>>
    /\ UNCHANGED <<workerVars, sideVars>>

\* What the "clean up dead clients" block of a topic Broadcast does with
\* deadClients: it deletes them from the topic's own subset.
CleanupEffect(t, dead) ==
    /\ IF t = "pool"
       THEN /\ poolClients' = poolClients \ dead
            /\ UNCHANGED opportunityClients
       ELSE /\ opportunityClients' = opportunityClients \ dead
            /\ UNCHANGED poolClients
    /\ UNCHANGED <<clients, sendClosed, panicked>>

\* if len(deadClients) > 0 { h.mu.Lock(); ...; h.mu.Unlock() }
BroadcastCleanup(t) ==
    /\ bpc[t] = "cleanup"
    /\ LockFree
    /\ CleanupEffect(t, bdead[t])
    /\ bpc' = [bpc EXCEPT ![t] = "ret"]
    /\ UNCHANGED <<hubpc, hubArg, Send, connClosed, route, handler, writePump,
                   btodo, bdead, bsubs, cancelled, bsent>>
    /\ UNCHANGED <<workerVars, sideVars>>

\* The Broadcast call returns to the subscriber loop; its locals are gone.
BroadcastReturn(t) ==
    /\ bpc[t] = "ret"
    /\ bpc' = [bpc EXCEPT ![t] = "listen"]
    /\ bdead' = [bdead EXCEPT ![t] = {}]
    /\ bsubs' = [bsubs EXCEPT ![t] = {}]
    /\ bsent' = [bsent EXCEPT ![t] = {}]
    /\ UNCHANGED <<clients, poolClients, opportunityClients, hubpc, hubArg,
                   Send, sendClosed, connClosed, route, handler, writePump,
                   btodo, cancelled, panicked>>
    /\ UNCHANGED <<workerVars, sideVars>>

\* API server main: the signal arrives, cancel() is called and the listener
\* is shut down.
Shutdown ==
    /\ ~cancelled
    /\ cancelled' = TRUE
    /\ UNCHANGED <<clients, poolClients, opportunityClients, hubpc, hubArg,
                   Send, sendClosed, connClosed, route, handler, writePump,
                   bpc, btodo, bdead, bsubs, bsent,
                   panicked>>
    /\ UNCHANGED <<workerVars, sideVars>>

\* subscribeToPoolUpdates / subscribeToOpportunityAlerts, case <-ctx.Done().
SubscriberStop(t) ==
    /\ bpc[t] = "listen"
    /\ cancelled
    /\ bpc' = [bpc EXCEPT ![t] = "stopped"]
    /\ UNCHANGED <<clients, poolClients, opportunityClients, hubpc, hubArg,
                   Send, sendClosed, connClosed, route, handler, writePump,
                   btodo, bdead, bsubs, cancelled, bsent,
                   panicked>>
    /\ UNCHANGED <<workerVars, sideVars>>

NextHub ==
    \/ \E c \in Client, t \in Topic : Connect(c, t)
    \/ HubRegister
    \/ HubUnregister
    \/ \E c \in Client : Subscribe(c)
    \/ \E c \in Client : ClientPing(c)
    \/ \E c \in Client : SendPong(c)
    \/ \E c \in Client : PeerGone(c)
    \/ \E c \in Client : ReadOnClosedConn(c)
    \/ \E c \in Client : SendUnregister(c)
    \/ \E c \in Client : WritePumpWrite(c)
    \/ \E c \in Client : WritePumpClosed(c)
    \/ \E c \in Client : WritePumpError(c)
    \/ \E t \in Topic : BroadcastBegin(t)
    \/ \E t \in Topic : BroadcastSend(t)
    \/ \E t \in Topic : BroadcastCleanup(t)
    \/ \E t \in Topic : BroadcastReturn(t)
    \/ Shutdown
    \/ \E t \in Topic : SubscriberStop(t)

SpecHub == Init /\ [][NextHub]_vars

\* The Go scheduler runs every goroutine that can take a step, and h.mu
\* (sync.RWMutex) and the channel rendezvous starve nobody.  Nothing is
\* assumed of the peers (connecting, pinging, going away, write failures),
\* of Redis deliveries or of the shutdown signal.
\* A goroutine is at a call of h.mu.Lock().
WriterWaiting ==
    \/ hubpc \in {"register", "unregister"}
    \/ \E c \in Client : handler[c] = "subscribe"
    \/ \E t \in Topic : bpc[t] = "clean"

\* A blocked Lock() keeps new readers out of a sync.RWMutex, so the
\* Broadcasts of the two topics cannot hand the read lock to each other for
\* ever while a writer waits: the lock falls free again and again.
FairnessHub ==
    /\ []<>(LockFree \/ ~WriterWaiting)
    /\ SF_vars(HubRegister)
    /\ SF_vars(HubUnregister)
    /\ \A c \in Client :
          /\ SF_vars(Subscribe(c))
          /\ SF_vars(SendUnregister(c))
          /\ WF_vars(SendPong(c))
          /\ WF_vars(ReadOnClosedConn(c))
          /\ WF_vars(WritePumpWrite(c))
          /\ WF_vars(WritePumpClosed(c))
    /\ \A t \in Topic :
          /\ WF_vars(BroadcastSend(t))
          /\ SF_vars(BroadcastCleanup(t))
          /\ WF_vars(BroadcastReturn(t))
          /\ WF_vars(SubscriberStop(t))

FairSpecHub == Init /\ [][NextHub]_vars /\ FairnessHub

\* The hub serving the connections of LiveClient only: the runs on which
\* the progress properties are checked.
LiveClient == 1..NumLiveClients

NextHubLive ==
    \/ \E c \in LiveClient, t \in Topic : Connect(c, t)
    \/ HubRegister
    \/ HubUnregister
    \/ \E c \in Client : Subscribe(c)
    \/ \E c \in Client : ClientPing(c)
    \/ \E c \in Client : SendPong(c)
    \/ \E c \in Client : PeerGone(c)
    \/ \E c \in Client : ReadOnClosedConn(c)
    \/ \E c \in Client : SendUnregister(c)
    \/ \E c \in Client : WritePumpWrite(c)
    \/ \E c \in Client : WritePumpClosed(c)
    \/ \E c \in Client : WritePumpError(c)
    \/ \E t \in Topic : BroadcastBegin(t)
    \/ \E t \in Topic : BroadcastSend(t)
    \/ \E t \in Topic : BroadcastCleanup(t)
    \/ \E t \in Topic : BroadcastReturn(t)
    \/ Shutdown
    \/ \E t \in Topic : SubscriberStop(t)

FairSpecHubLive == Init /\ [][NextHubLive]_vars /\ FairnessHub

(***************************************************************************)
(* Claims about the hub.                                                   *)
(***************************************************************************)

\* C2: when a topic Broadcast that found exactly one of its N >= 2
\* subscribers saturated has completed, its envelope was put (once, by the
\* range loop) on the queue of each of the other N-1 subscribers and the
\* saturated connection is no longer in the registry (the full set and the
\* topic subsets).
C2_SaturatedRemovedFromRegistry ==
    \A t \in Topic :
        (bpc[t] = "ret" /\ Cardinality(bdead[t]) = 1
                        /\ Cardinality(bsubs[t]) >= 2)
        => /\ bsent[t] = bsubs[t] \ bdead[t]
           /\ bdead[t] \cap (clients \cup poolClients \cup opportunityClients) = {}

\* The delivery half of C2 on its own.
C2_OthersReceive ==
    \A t \in Topic :
        (bpc[t] = "ret" /\ Cardinality(bdead[t]) = 1
                        /\ Cardinality(bsubs[t]) >= 2)
        => bsent[t] = bsubs[t] \ bdead[t]

\* C3: when a topic Broadcast has completed, every connection it found
\* saturated is out of the full set and of both topic subsets and its Send
\* channel is closed.
C3_SaturatedEvicted ==
    \A t \in Topic :
        bpc[t] = "ret" =>
            \A c \in bdead[t] :
                /\ c \notin clients
                /\ c \notin poolClients
                /\ c \notin opportunityClients
                /\ sendClosed[c]

\* C4: no Send channel ever holds more than its capacity, and a Broadcast
\* inside its range loop can always take its next iteration, whatever the
\* state of the subscribers' queues and writers: it never waits for room.
C4_BroadcastNeverBlocks ==
    /\ \A c \in Client : Len(Send[c]) <= SendCap
    /\ \A t \in Topic : bpc[t] = "iter" => ENABLED BroadcastSend(t)

\* A Broadcast is about to visit a subscriber whose queue is full and whose
\* writer has stopped draining it.
C4_Witness ==
    \E t \in Topic : \E c \in btodo[t] :
        /\ bpc[t] = "iter"
        /\ Len(Send[c]) = SendCap
        /\ writePump[c] = "exit"

\* C10: once the root context of the API server is cancelled, every
\* registered connection is eventually unregistered, with its Send channel
\* closed and both of its loops terminated.
C10_ShutdownUnregistersAll ==
    \A c \in Client :
        (cancelled /\ c \in clients)
            ~> (c \notin clients /\ sendClosed[c]
                /\ handler[c] = "exit" /\ writePump[c] = "exit")

\* C12: a connection whose inbound loop has met a read error, a close frame
\* or a keepalive timeout is eventually unregistered: it is in none of the
\* three sets and its outbound queue is closed.
C12_ReadErrorLeadsToUnregistered ==
    \A c \in Client :
        handler[c] = "unregister"
            ~> (/\ c \notin clients
                /\ c \notin poolClients
                /\ c \notin opportunityClients
                /\ sendClosed[c])

\* C12 witness: the inbound loop of a registered, subscribed connection has
\* met its read error while the peer was still connected, and the
\* connection has been unregistered.
C12_Witness ==
    \E c \in Client :
        /\ handler[c] = "exit"
        /\ writePump[c] = "run"
        /\ c \notin clients
        /\ c \notin poolClients
        /\ c \notin opportunityClients
        /\ sendClosed[c]

\* C21: unregistered is terminal.  From the moment Hub.Run's unregister
\* case has acted on a connection (its queue is closed), the connection is
\* in none of the three sets, now and after every later step.
C21_UnregisteredIsTerminal ==
    \A c \in Client :
        sendClosed[c] => /\ c \notin clients
                         /\ c \notin poolClients
                         /\ c \notin opportunityClients

\* C21 witness: a connection has been unregistered and, after that, another
\* one is registered and subscribed and a Broadcast is sending to it.
C21_Witness ==
    \E c, d \in Client :
        /\ sendClosed[c]
        /\ handler[c] = "exit"
        /\ d \in clients
        /\ \E t \in Topic : bpc[t] = "iter" /\ d \in bsubs[t]

\* C22: each topic subset is a subset of the full set of connections.
C22_TopicsWithinClients ==
    /\ poolClients \subseteq clients
    /\ opportunityClients \subseteq clients

\* C23: the inbound loop never waits on the connection's own outbound
\* queue: whenever handleMessage is at its `c.Send <- responseBytes`, the
\* send can proceed.
C23_PongNeverBlocks ==
    \A c \in Client :
        handler[c] = "pong" => (sendClosed[c] \/ Len(Send[c]) < SendCap)

\* C30: no goroutine sends on a Send channel that has been closed (and no
\* channel is closed twice): the program never panics on a queue.
C30_NoSendAfterClose == ~panicked

\* C30 witness: one connection's queue has been closed by unregister while
\* a topic Broadcast is inside its loop and another connection's ReadPump
\* is about to reply to a ping.
C30_Witness ==
    \E c, d \in Client :
        /\ c # d
        /\ sendClosed[c]
        /\ handler[d] = "pong"
        /\ \E t \in Topic : bpc[t] = "iter" /\ d \in btodo[t]

(***************************************************************************)
(* The hub driven through its channels.  In the program a connection is    *)
(* sent on h.unregister once, by its own ReadPump, and nothing sends on    *)
(* h.broadcast; Hub.Run nevertheless serves both channels for whoever      *)
(* holds the hub.  Here connections register and subscribe as above, and   *)
(* any set-up connection may be sent on h.unregister at any time and any   *)
(* number of times, and messages may arrive on h.broadcast.                *)
(***************************************************************************)
\* `c.Hub.unregister <- c`, handed to Hub.Run in its select.
UnregisterRequest(c) ==
    /\ handler[c] = "read"
    /\ hubpc = "select"
    /\ hubpc' = "unregister"
    /\ hubArg' = c
    /\ UNCHANGED <<clients, poolClients, opportunityClients, Send, sendClosed,
                   connClosed, route, handler, writePump, bpc, btodo, bdead,
                   bsubs, cancelled, bsent, panicked>>
    /\ UNCHANGED <<workerVars, sideVars>>

\* A message is put on h.broadcast and Hub.Run takes it in its select.
BroadcastRequest ==
    /\ hubpc = "select"
    /\ hubpc' = "broadcast"
    /\ UNCHANGED <<clients, poolClients, opportunityClients, hubArg, Send,
                   sendClosed, connClosed, route, handler, writePump, bpc,
                   btodo, bdead, bsubs, cancelled, bsent, panicked>>
    /\ UNCHANGED <<workerVars, sideVars>>

\* Hub.Run, case message := <-h.broadcast, the loop under the read lock:
\* the message goes on every registered queue that has room, the clients
\* whose queue is full are collected in deadClients.
RunBroadcast ==
    /\ hubpc = "broadcast"
    /\ LET open == {c \in clients : ~sendClosed[c]}
           full == {c \in open : Len(Send[c]) >= SendCap}
       IN /\ Send' = [c \in Client |->
                         IF c \in open \ full
                         THEN Append(Send[c], "message")
                         ELSE Send[c]]
          /\ panicked' = (panicked \/ open # clients)
          /\ deadClients' = full
          /\ hubpc' = IF full = {} THEN "select" ELSE "evict"
    /\ UNCHANGED <<clients, poolClients, opportunityClients, hubArg,
                   sendClosed, connClosed, route, handler, writePump, bpc,
                   btodo, bdead, bsubs, cancelled, bsent>>
    /\ UNCHANGED <<workerVars, mainVars, ingestVars, evalVars>>

\* Hub.Run, the same case, one turn of the loop over deadClients under the
\* write lock; after the last turn Hub.Run is back in its select.
RunEvict ==
    /\ hubpc = "evict"
    /\ LockFree
    /\ \E c \in deadClients :
          /\ UnregisterEffect(c)
          /\ deadClients' = deadClients \ {c}
          /\ hubpc' = IF deadClients = {c} THEN "select" ELSE "evict"
    /\ UNCHANGED <<hubArg, Send, connClosed, route, handler, writePump, bpc,
                   btodo, bdead, bsubs, cancelled, bsent>>
    /\ UNCHANGED <<workerVars, mainVars, ingestVars, evalVars>>

NextHubOps ==
    \/ \E c \in Client, t \in Topic : Connect(c, t)
    \/ HubRegister
    \/ \E c \in Client : Subscribe(c)
    \/ \E c \in Client : UnregisterRequest(c)
    \/ HubUnregister
    \/ BroadcastRequest
    \/ RunBroadcast
    \/ RunEvict

SpecHubOps == Init /\ [][NextHubOps]_vars

\* C13: unregister is idempotent.  When Hub.Run serves an unregister
\* request for a connection that is not in the registry, no set changes and
\* no queue is closed; and no queue is ever closed a second time, however
\* often its connection is unregistered or evicted (in these runs only a
\* second close sets `panicked`).
C13_UnregisterIdempotent ==
    /\ [][(hubpc = "unregister" /\ hubArg \notin clients /\ hubpc' = "select")
            => UNCHANGED <<clients, poolClients, opportunityClients,
                           sendClosed, Send>>]_vars
    /\ [](~panicked)

\* A connection whose queue an earlier unregister or eviction has closed
\* is in Hub.Run's hands for unregistering again.
C13_Witness ==
    /\ hubpc = "unregister"
    /\ hubArg \notin clients
    /\ sendClosed[hubArg]

(***************************************************************************)
(* Part II.  The worker.                                                   *)
(*                                                                         *)
(* Units: APY and APY changes in basis points (1/100 of a percent), TVL in *)
(* dollars, normalised factors in 1/10000, scores in 1/100 of a point, gas *)
(* costs in tenths of a dollar, profits in cents, time in hours.           *)
(***************************************************************************)

\* ---- configuration defaults (config.Load) ----
\* The scoring weights are in percent.
MinTVLThreshold == 100000
MinAPYThreshold == 10
YieldGapMinProfit == 50
APYJumpThreshold == 5000
APYWeight == 35
TVLWeight == 25
StabilityWeight == 25
TrendWeight == 15

\* ---- literals of the opportunity service ----
HighScoreMin == 7000
YieldGapLimit == 50
YieldGapPoolLimit == 5000
TrendingLimit == 100
HighScoreLimit == 100
YieldGapTTL == 1
TrendingTTL == 6
HighScoreTTL == 24

\* The zero value of a pool id field that an opportunity does not use.
NoPool == 0

Min(a, b) == IF a < b THEN a ELSE b
Max(a, b) == IF a > b THEN a ELSE b
Abs(a) == IF a < 0 THEN 0 - a ELSE a

\* ---- analytics ----
chainSecurityRatings ==
    "ethereum" :> 95 @@ "bsc" :> 75 @@ "polygon" :> 80 @@ "arbitrum" :> 85
    @@ "optimism" :> 85 @@ "avalanche" :> 80 @@ "fantom" :> 70 @@ "base" :> 80
    @@ "gnosis" :> 75 @@ "celo" :> 70 @@ "moonbeam" :> 65 @@ "moonriver" :> 60
    @@ "aurora" :> 65 @@ "cronos" :> 60 @@ "harmony" :> 50 @@ "metis" :> 60
    @@ "boba" :> 55 @@ "kava" :> 65 @@ "solana" :> 75

\* math.Log10 of an integer, in 1/10000, tabulated for the arguments the
\* pool catalogue and the calls of CalculateScore below produce.
Log10E4(n) ==
    CASE n = 1 -> 0
      [] n = 1000 -> 30000
      [] n = 1000000 -> 60000
      [] n = 100000000 -> 80000
      [] n = 1000000000 -> 90000
      [] n = 450 -> 26532
      [] n = 520 -> 27160
      [] n = 6100 -> 37853
      [] n = 10001 -> 40000
      [] n = 300000000 -> 84771
      [] n = 500000000 -> 86990

\* normalizeAPY: log10(apy + 1) / log10(10001), at most 1.  With apy in
\* basis points, log10(apy/100 + 1) = log10(apy + 100) - 2.
normalizeAPY(apy) ==
    IF apy <= 0 THEN 0
    ELSE Min(10000, ((Log10E4(apy + 100) - 20000) * 10000) \div Log10E4(10001))

\* normalizeTVL: (log10(tvl) - 3) / (10 - 3), clamped to [0, 1].
normalizeTVL(tvl) ==
    IF tvl <= 0 THEN 0
    ELSE Max(0, Min(10000, ((Log10E4(tvl) - 30000) * 10000) \div (100000 - 30000)))

\* calculateStability: 1 - min(1, |apy - mean| / mean); 0.5 without a mean.
calculateStability(currentAPY, meanAPY) ==
    IF meanAPY <= 0 THEN 5000
    ELSE IF Abs(currentAPY - meanAPY) >= meanAPY THEN 0
    ELSE 10000 - (Abs(currentAPY - meanAPY) * 10000) \div meanAPY

\* normalizeTrend: (clamp(change, -100, 100) + 100) / 200.
normalizeTrend(change24h) ==
    (Max(0 - 10000, Min(10000, change24h)) + 10000) \div 2

\* getChainSecurityMultiplier: 0.5 + rating / 200, returned as the rating the
\* multiplier is built from; an unknown chain rates 50.
getChainSecurityRating(chain) ==
    IF chain \in DOMAIN chainSecurityRatings THEN chainSecurityRatings[chain] ELSE 50

\* A missing clamp; C17 is tested against it.
Unclamped(score) == score
\* math.Max(0, math.Min(100, score)).
Clamp(score) == Max(0, Min(10000, score))

\* A faulty CalculateScore that leaves the chain multiplier out; C26 is
\* tested against it.
ScoreWithoutChain(pool, weights) ==
    Max(0, Min(10000,
        (weights.apy * normalizeAPY(pool.apy)
         + weights.tvl * normalizeTVL(pool.tvl)
         + weights.stability * calculateStability(pool.apy, pool.apyMean30d)
         + weights.trend * normalizeTrend(pool.apyChange24h)) \div 100))

\* CalculateScore of a service built with `weights` (in percent): the
\* weighted sum of the four factors, times the chain multiplier
\* (100 + rating) / 200, times 100, clamped to [0, 100].
ScoreWith(pool, weights) ==
    LET weighted == (weights.apy * normalizeAPY(pool.apy)
                     + weights.tvl * normalizeTVL(pool.tvl)
                     + weights.stability * calculateStability(pool.apy, pool.apyMean30d)
                     + weights.trend * normalizeTrend(pool.apyChange24h)) \div 100
        score == (weighted * (100 + getChainSecurityRating(pool.chain))) \div 200
    IN  Clamp(score)

\* cfg.Scoring as loaded from the defaults.
Scoring == [apy |-> APYWeight, tvl |-> TVLWeight,
            stability |-> StabilityWeight, trend |-> TrendWeight]

\* CalculateScore of the worker's analytics service.
CalculateScore(pool) == ScoreWith(pool, Scoring)

\* estimateGasCost, in tenths of a dollar.
estimateGasCost(chain) ==
    CASE chain = "ethereum" -> 500
      [] chain \in {"arbitrum", "optimism"} -> 10
      [] chain \in {"polygon", "fantom", "gnosis"} -> 1
      [] chain \in {"bsc", "avalanche", "base"} -> 5
      [] OTHER -> 100

\* CalculateYieldGapProfit, in cents; 0 when the function returns (0, 0).
\* With d the APY difference in basis points and g the gas cost in tenths
\* of a dollar, profit = 10000 * d/10000 / 365 * 30 - g/10 dollars
\* = (60 d - 73 g) / 730, and minInvestment = (g/10) * 365 / (d/100 * 7)
\* exceeds 100000 exactly when 73 g > 14000 d.
CalculateYieldGapProfit(lowAPY, highAPY, sourceChain, targetChain) ==
    LET apyDiff == highAPY - lowAPY
        gasCost == estimateGasCost(sourceChain) + estimateGasCost(targetChain)
        profit730 == 60 * apyDiff - 73 * gasCost
    IN  IF apyDiff <= 0 THEN 0
        ELSE IF profit730 < 0 \/ 73 * gasCost > 14000 * apyDiff THEN 0
        ELSE (profit730 * 10) \div 73

\* A faulty risk level that counts a high TVL, not a low one, as a risk
\* factor; C18 is tested against it.
RiskLevelOfHighTVL(pool) ==
    LET chainRating == IF pool.chain \in DOMAIN chainSecurityRatings
                       THEN chainSecurityRatings[pool.chain] ELSE 0
        riskFactors == (IF pool.apy > 10000 THEN 1 ELSE 0)
                       + (IF pool.apy > 50000 THEN 1 ELSE 0)
                       + (IF pool.tvl > 100000 THEN 1 ELSE 0)
                       + (IF pool.tvl > 10000 THEN 1 ELSE 0)
                       + (IF pool.score < 3000 THEN 1 ELSE 0)
                       + (IF chainRating < 60 THEN 1 ELSE 0)
    IN  IF riskFactors >= 3 THEN "high"
        ELSE IF riskFactors >= 1 THEN "medium"
        ELSE "low"

\* CalculateRiskLevel.  A chain missing from the ratings map rates 0 here
\* (the map's zero value).
CalculateRiskLevel(pool) ==
    LET chainRating == IF pool.chain \in DOMAIN chainSecurityRatings
                       THEN chainSecurityRatings[pool.chain] ELSE 0
        riskFactors == (IF pool.apy > 10000 THEN 1 ELSE 0)
                       + (IF pool.apy > 50000 THEN 1 ELSE 0)
                       + (IF pool.tvl < 100000 THEN 1 ELSE 0)
                       + (IF pool.tvl < 10000 THEN 1 ELSE 0)
                       + (IF pool.score < 3000 THEN 1 ELSE 0)
                       + (IF chainRating < 60 THEN 1 ELSE 0)
    IN  IF riskFactors >= 3 THEN "high"
        ELSE IF riskFactors >= 1 THEN "medium"
        ELSE "low"

\* ---- the upstream provider ----
PoolId == 1..NumPools

\* What the provider reports for a pool (defillama.Pool converted by
\* ToPoolModel; APYChange24H is the provider's apyPct1D).  A symbol is the
\* sequence of its tokens and separators.
Upstream(p) ==
    CASE p = 1 -> [id |-> 1, chain |-> "arbitrum", symbol |-> <<"USDC">>,
                   tvl |-> 500000000, apy |-> 350, apyMean30d |-> 350,
                   apyChange24h |-> 0]
      [] p = 2 -> [id |-> 2, chain |-> "arbitrum", symbol |-> <<"usdc", "-", "weth">>,
                   tvl |-> 300000000, apy |-> 420, apyMean30d |-> 420,
                   apyChange24h |-> 6000]
      [] OTHER -> [id |-> p, chain |-> "arbitrum", symbol |-> <<"WETH">>,
                   tvl |-> 500000000, apy |-> 6000, apyMean30d |-> 6000,
                   apyChange24h |-> 10000]

\* The TVL the provider reports for a pool that has lost its liquidity.
DrainedTVL == 50000

\* ToPoolModel: the provider's record as a row of table pools, not scored
\* yet.
ToPoolModel(p) ==
    [id |-> p.id, chain |-> p.chain, symbol |-> p.symbol, tvl |-> p.tvl,
     apy |-> p.apy, apyMean30d |-> p.apyMean30d,
     apyChange24h |-> p.apyChange24h, score |-> 0]

\* ---- table pools ----
\* UpsertPool: INSERT ... ON CONFLICT (id) DO UPDATE SET the metrics; chain
\* and symbol of an existing row stay.
UpsertPool(tbl, pool) ==
    IF \E r \in tbl : r.id = pool.id
    THEN {IF r.id = pool.id
          THEN [r EXCEPT !.tvl = pool.tvl, !.apy = pool.apy,
                         !.apyMean30d = pool.apyMean30d, !.score = pool.score,
                         !.apyChange24h = pool.apyChange24h]
          ELSE r : r \in tbl}
    ELSE tbl \cup {pool}

\* The sequences that list the rows of S once each, by Key descending; rows
\* with equal keys come in any order.
SortedDesc(S, Key(_)) ==
    {s \in [1..Cardinality(S) -> S] :
        /\ \A i, j \in 1..Cardinality(S) : i # j => s[i] # s[j]
        /\ \A i \in 1..(Cardinality(S) - 1) : Key(s[i]) >= Key(s[i + 1])}

Range(s) == {s[i] : i \in 1..Len(s)}
\* A missing cap; C16 is tested against it.
Untruncated(s, limit) == s
\* `if len(s) > limit { s = s[:limit] }`, and SQL's LIMIT.
Truncate(s, limit) == IF Len(s) > limit THEN SubSeq(s, 1, limit) ELSE s

\* ListPools: the MinAPY and MinTVL conditions are added when the filter
\* field is not zero; filter.MinScore is not read; ORDER BY the sort column
\* (tvl unless "apy" or "score"), descending; LIMIT.
SortKey(r, sortBy) ==
    CASE sortBy = "apy" -> r.apy
      [] sortBy = "score" -> r.score
      [] OTHER -> r.tvl
ListPools(tbl, filter) ==
    LET matching == {r \in tbl :
                        /\ filter.minAPY # 0 => r.apy >= filter.minAPY
                        /\ filter.minTVL # 0 => r.tvl >= filter.minTVL}
        Key(r) == SortKey(r, filter.sortBy)
    IN  {Truncate(s, filter.limit) : s \in SortedDesc(matching, Key)}

\* GetTrendingPools: WHERE apy_change_24h > minGrowth ORDER BY
\* apy_change_24h DESC LIMIT limit.
GetTrendingPools(tbl, minGrowth, limit) ==
    LET matching == {r \in tbl : r.apyChange24h > minGrowth}
        Key(r) == r.apyChange24h
    IN  {Truncate(s, limit) : s \in SortedDesc(matching, Key)}

\* ---- normalizeAsset ----
\* strings.ToUpper on a token.
ToUpper(tok) ==
    CASE tok = "usdc" -> "USDC"
      [] tok = "weth" -> "WETH"
      [] OTHER -> tok

singleAssets == <<"USDC", "USDT", "DAI", "FRAX", "LUSD", "BUSD", "ETH", "WETH",
                  "BTC", "WBTC", "MATIC", "AVAX", "FTM", "BNB">>
separators == <<"-", "/", "_">>

\* The first entry of singleAssets the upper-cased symbol equals, starts
\* with (followed by "-") or ends with (preceded by "-"); otherwise what
\* precedes the first occurrence of the first separator that occurs;
\* otherwise the symbol.
normalizeAsset(sym) ==
    LET symbol == [i \in 1..Len(sym) |-> ToUpper(sym[i])]
        n == Len(symbol)
        Matches(asset) ==
            \/ symbol = <<asset>>
            \/ n >= 2 /\ symbol[1] = asset /\ symbol[2] = "-"
            \/ n >= 2 /\ symbol[n] = asset /\ symbol[n - 1] = "-"
        hits == {i \in 1..Len(singleAssets) : Matches(singleAssets[i])}
        seps == {k \in 1..Len(separators) : \E i \in 1..n : symbol[i] = separators[k]}
    IN  IF hits # {}
        THEN <<singleAssets[CHOOSE i \in hits : \A h \in hits : i <= h]>>
        ELSE IF seps # {}
        THEN LET sep == separators[CHOOSE k \in seps : \A h \in seps : k <= h]
                 first == CHOOSE i \in 1..n :
                              symbol[i] = sep /\ \A h \in 1..(i - 1) : symbol[h] # sep
             IN  SubSeq(symbol, 1, first - 1)
        ELSE symbol

\* ---- the opportunity service ----
\* A faulty identifier source that hands out one identifier over and over;
\* C7 depends on NewID not behaving like this.
ReusedID(j, n) == <<0, 1>>
\* uuid.New(): the n-th identifier pass j draws is a new one.
NewID(j, n) == <<j, n>>

\* groupPoolsByAsset: asset -> the listed pools of that asset; pools whose
\* asset is empty are left out.
groupPoolsByAsset(list) ==
    LET assets == {normalizeAsset(r.symbol) : r \in Range(list)} \ {<<>>}
    IN  [a \in assets |-> {r \in Range(list) : normalizeAsset(r.symbol) = a}]

\* A faulty pick that takes the first element for the lowest and the last
\* for the highest; C15 is tested against it.
LowHighPairs(group) ==
    {pr \in group \X group :
        /\ pr[1] # pr[2]
        /\ \A r \in group : pr[1].apy <= r.apy /\ pr[2].apy >= r.apy}

\* A faulty pick that compares any pool with any pool of lower or equal
\* APY, not the first with the last; C27 is tested against it.
AnyOrderedPairs(group) ==
    {pr \in group \X group : pr[1] # pr[2] /\ pr[1].apy >= pr[2].apy}

\* sort.Slice by APY descending, then the first and the last element: a
\* pool of highest and another pool of lowest APY (the sort is not stable).
HighLowPairs(group) ==
    {pr \in group \X group :
        /\ pr[1] # pr[2]
        /\ \A r \in group : pr[1].apy >= r.apy /\ pr[2].apy <= r.apy}

YieldGapOpportunity(asset, highestPool, lowestPool, t) ==
    [id |-> <<>>, type |-> "yield-gap",
     sourcePoolId |-> lowestPool.id, targetPoolId |-> highestPool.id,
     poolId |-> NoPool, asset |-> asset, chain |-> highestPool.chain,
     apyDifference |-> highestPool.apy - lowestPool.apy, apyGrowth |-> 0,
     currentApy |-> highestPool.apy,
     potentialProfit |-> CalculateYieldGapProfit(lowestPool.apy, highestPool.apy,
                                                 lowestPool.chain, highestPool.chain),
     tvl |-> highestPool.tvl + lowestPool.tvl,
     riskLevel |-> CalculateRiskLevel(highestPool), score |-> highestPool.score,
     isActive |-> TRUE, detectedAt |-> t, lastSeenAt |-> t,
     expiresAt |-> t + YieldGapTTL, updatedAt |-> t]

TrendingOpportunity(id, pool, t) ==
    [id |-> id, type |-> "trending",
     sourcePoolId |-> NoPool, targetPoolId |-> NoPool,
     poolId |-> pool.id, asset |-> pool.symbol, chain |-> pool.chain,
     apyDifference |-> 0, apyGrowth |-> pool.apyChange24h,
     currentApy |-> pool.apy, potentialProfit |-> 0, tvl |-> pool.tvl,
     riskLevel |-> CalculateRiskLevel(pool), score |-> pool.score,
     isActive |-> TRUE, detectedAt |-> t, lastSeenAt |-> t,
     expiresAt |-> t + TrendingTTL, updatedAt |-> t]

HighScoreOpportunity(id, pool, t) ==
    [id |-> id, type |-> "high-score",
     sourcePoolId |-> NoPool, targetPoolId |-> NoPool,
     poolId |-> pool.id, asset |-> pool.symbol, chain |-> pool.chain,
     apyDifference |-> 0, apyGrowth |-> 0,
     currentApy |-> pool.apy, potentialProfit |-> 0, tvl |-> pool.tvl,
     riskLevel |-> CalculateRiskLevel(pool), score |-> pool.score,
     isActive |-> TRUE, detectedAt |-> t, lastSeenAt |-> t,
     expiresAt |-> t + HighScoreTTL, updatedAt |-> t]

\* Number the opportunities of a slice with new identifiers, the first one
\* being the n-th identifier pass j draws.
WithNewIDs(s, j, n) == [i \in 1..Len(s) |-> [s[i] EXCEPT !.id = NewID(j, n + i - 1)]]

\* DetectYieldGaps with `limit` for its cap on the slice: the slices the
\* call may return at time t.
DetectYieldGapsTop(tbl, t, j, n, limit) ==
    LET filter == [minAPY |-> 0, minTVL |-> MinTVLThreshold, minScore |-> 0,
                   sortBy |-> "", limit |-> YieldGapPoolLimit]
        Profit(o) == o.potentialProfit
        Slices(list) ==
            LET assetPools == groupPoolsByAsset(list)
                comparable == {a \in DOMAIN assetPools : Cardinality(assetPools[a]) >= 2}
                picks == {pk \in [comparable -> Range(list) \X Range(list)] :
                             \A a \in comparable : pk[a] \in HighLowPairs(assetPools[a])}
                Found(pk) ==
                    {YieldGapOpportunity(a, pk[a][1], pk[a][2], t) :
                        a \in {b \in comparable :
                                 /\ pk[b][1].apy - pk[b][2].apy >= YieldGapMinProfit
                                 /\ CalculateYieldGapProfit(pk[b][2].apy, pk[b][1].apy,
                                        pk[b][2].chain, pk[b][1].chain) > 0}}
            IN  UNION {SortedDesc(Found(pk), Profit) : pk \in picks}
    IN  {WithNewIDs(Truncate(s, limit), j, n) :
            s \in UNION {Slices(list) : list \in ListPools(tbl, filter)}}

\* DetectYieldGaps: the cap is 50.
DetectYieldGaps(tbl, t, j, n) == DetectYieldGapsTop(tbl, t, j, n, YieldGapLimit)

\* DetectTrendingPools.
DetectTrendingPools(tbl, t, j, n) ==
    {[i \in 1..Len(s) |-> TrendingOpportunity(NewID(j, n + i - 1), s[i], t)] :
        s \in GetTrendingPools(tbl, APYJumpThreshold, TrendingLimit)}

\* DetectHighScorePools with `limit` for the Limit of its filter.
DetectHighScorePoolsTop(tbl, t, j, n, limit) ==
    LET filter == [minAPY |-> MinAPYThreshold, minTVL |-> MinTVLThreshold,
                   minScore |-> HighScoreMin, sortBy |-> "score",
                   limit |-> limit]
    IN  {[i \in 1..Len(s) |-> HighScoreOpportunity(NewID(j, n + i - 1), s[i], t)] :
            s \in ListPools(tbl, filter)}

\* DetectHighScorePools: the Limit is 100.
DetectHighScorePools(tbl, t, j, n) ==
    DetectHighScorePoolsTop(tbl, t, j, n, HighScoreLimit)

\* ---- table opportunities ----
\* UpsertOpportunity at time t: INSERT ... ON CONFLICT (id) DO UPDATE SET
\* title, description, current_apy, potential_profit, tvl, score,
\* is_active, last_seen_at from the new record, updated_at = NOW().
UpsertOpportunity(tbl, opp, t) ==
    IF \E r \in tbl : r.id = opp.id
    THEN {IF r.id = opp.id
          THEN [r EXCEPT !.currentApy = opp.currentApy,
                         !.potentialProfit = opp.potentialProfit,
                         !.tvl = opp.tvl, !.score = opp.score,
                         !.isActive = opp.isActive,
                         !.lastSeenAt = opp.lastSeenAt, !.updatedAt = t]
          ELSE r : r \in tbl}
    ELSE tbl \cup {opp}

\* DeactivateExpiredOpportunities at time t: UPDATE opportunities SET
\* is_active = false, updated_at = NOW() WHERE is_active = true AND
\* expires_at < NOW().
\* (The same statement with the comparison reversed, expires_at > NOW(),
\* is the faulty sweep C8 is tested against.)
DeactivateUnexpired(tbl, t) ==
    {IF r.isActive /\ r.expiresAt > t
     THEN [r EXCEPT !.isActive = FALSE, !.updatedAt = t]
     ELSE r : r \in tbl}
DeactivateExpiredOpportunities(tbl, t) ==
    {IF r.isActive /\ r.expiresAt < t
     THEN [r EXCEPT !.isActive = FALSE, !.updatedAt = t]
     ELSE r : r \in tbl}

\* ---- runDeFiLlamaJob ----
\* What happens to a pool in one run of the job: the provider reports it
\* with its liquidity gone ("drained"), the provider reports it ("listed"),
\* or the provider reports it and its UpsertPool fails ("rejected").
Report == {"drained", "listed", "rejected"}

RECURSIVE UpsertPools(_, _)
UpsertPools(tbl, modelPools) ==
    IF modelPools = {} THEN tbl
    ELSE LET pool == CHOOSE r \in modelPools : TRUE
         IN  UpsertPools(UpsertPool(tbl, pool), modelPools \ {pool})

\* The table after one run of the job whose fetch succeeded: keep
\* the pools with TVLUsd >= MinTVLThreshold, convert and score them, upsert
\* them one by one, a failed upsert being logged and passed over.
DeFiLlamaJobResult(tbl, report) ==
    LET fetched == {IF report[p] = "drained"
                    THEN [Upstream(p) EXCEPT !.tvl = DrainedTVL]
                    ELSE Upstream(p) : p \in PoolId}
        filteredPools == {p \in fetched : p.tvl >= MinTVLThreshold}
        modelPools == {[ToPoolModel(p) EXCEPT !.score = CalculateScore(ToPoolModel(p))] :
                          p \in filteredPools}
        stored == {r \in modelPools : report[r.id] # "rejected"}
    IN  UpsertPools(tbl, stored)

\* ---- the worker's goroutines ----
\* Pass 0 is the goroutine main starts after scheduler.Start(); the cron
\* scheduler starts passes 1, 2, ...
Job == 0..MaxCronRuns

\* The scheduler's "0 */3 * * * *" entry fires: runDeFiLlamaJob.  A failed
\* fetch ends the job with the table as it was.
CronDeFiLlama ==
    /\ \/ UNCHANGED pools
       \/ \E report \in [PoolId -> Report] :
              pools' = DeFiLlamaJobResult(pools, report)
    /\ UNCHANGED <<opps, jpc, jpending, jUpserted, jPublished, cronRuns, nextId, now>>
    /\ UNCHANGED <<hubVars, sideVars>>

\* main's start-up goroutine: runDeFiLlamaJob, runCoinGeckoJob (token
\* prices, no table), then runOpportunityDetectionJob.
StartupFetch ==
    /\ jpc[0] = "idle"
    /\ \/ UNCHANGED pools
       \/ \E report \in [PoolId -> Report] :
              pools' = DeFiLlamaJobResult(pools, report)
    /\ jpc' = [jpc EXCEPT ![0] = "sweep"]
    /\ UNCHANGED <<opps, jpending, jUpserted, jPublished, cronRuns, nextId, now>>
    /\ UNCHANGED <<hubVars, sideVars>>

\* The scheduler's "0 */5 * * * *" entry fires: cron.New(cron.WithSeconds())
\* has no job wrapper, the scheduler runs the entry's function in a new
\* goroutine whatever the earlier passes are doing.
CronDetection ==
    /\ cronRuns < MaxCronRuns
    /\ cronRuns' = cronRuns + 1
    /\ jpc' = [jpc EXCEPT ![cronRuns + 1] = "sweep"]
    /\ UNCHANGED <<pools, opps, jpending, jUpserted, jPublished, nextId, now>>
    /\ UNCHANGED <<hubVars, sideVars>>

\* runOpportunityDetectionJob: DeactivateExpiredOpportunities succeeds.
SweepOk(j) ==
    /\ jpc[j] = "sweep"
    /\ opps' = DeactivateExpiredOpportunities(opps, now)
    /\ jpc' = [jpc EXCEPT ![j] = "yieldGaps"]
    /\ UNCHANGED <<pools, jpending, jUpserted, jPublished, cronRuns, nextId, now>>
    /\ UNCHANGED <<hubVars, sideVars>>

\* DeactivateExpiredOpportunities fails: a warning, the pass goes on.
SweepFail(j) ==
    /\ jpc[j] = "sweep"
    /\ jpc' = [jpc EXCEPT ![j] = "yieldGaps"]
    /\ UNCHANGED <<pools, opps, jpending, jUpserted, jPublished, cronRuns, nextId, now>>
    /\ UNCHANGED <<hubVars, sideVars>>

\* A scan of the pass returns: an error (logged, the save loop is not
\* entered) or a slice; the pass goes to the save loop, or past it when the
\* slice is empty.
ScanReturns(j, results, savepc, nextpc) ==
    /\ \/ /\ jpc' = [jpc EXCEPT ![j] = nextpc]
          /\ UNCHANGED <<jpending, nextId>>
       \/ \E s \in results :
              /\ nextId' = [nextId EXCEPT ![j] = @ + Len(s)]
              /\ jpending' = [jpending EXCEPT ![j] = s]
              /\ jpc' = [jpc EXCEPT ![j] = IF s = <<>> THEN nextpc ELSE savepc]
    /\ UNCHANGED <<pools, opps, jUpserted, jPublished, cronRuns, now>>
    /\ UNCHANGED <<hubVars, sideVars>>

\* One iteration of a save loop: UpsertOpportunity (a failure is logged),
\* for the yield gaps then PublishOpportunityAlert.
SaveNext(j, publish, nextpc) ==
    LET opp == Head(jpending[j])
    IN  /\ \E saved \in BOOLEAN :
               /\ opps' = IF saved THEN UpsertOpportunity(opps, opp, now) ELSE opps
               /\ jUpserted' = IF saved
                               THEN [jUpserted EXCEPT ![j] = @ \cup {opp.id}]
                               ELSE jUpserted
        /\ jPublished' = IF publish
                         THEN [jPublished EXCEPT ![j] = @ \cup {opp.id}]
                         ELSE jPublished
        /\ jpending' = [jpending EXCEPT ![j] = Tail(@)]
        /\ jpc' = IF Tail(jpending[j]) = <<>>
                  THEN [jpc EXCEPT ![j] = nextpc]
                  ELSE jpc
        /\ UNCHANGED <<pools, cronRuns, nextId, now>>
        /\ UNCHANGED <<hubVars, sideVars>>

ScanYieldGaps(j) ==
    /\ jpc[j] = "yieldGaps"
    /\ ScanReturns(j, DetectYieldGaps(pools, now, j, nextId[j]), "saveYieldGaps", "trending")

SaveYieldGap(j) ==
    /\ jpc[j] = "saveYieldGaps"
    /\ SaveNext(j, TRUE, "trending")

ScanTrending(j) ==
    /\ jpc[j] = "trending"
    /\ ScanReturns(j, DetectTrendingPools(pools, now, j, nextId[j]), "saveTrending", "highScore")

SaveTrending(j) ==
    /\ jpc[j] = "saveTrending"
    /\ SaveNext(j, FALSE, "highScore")

ScanHighScore(j) ==
    /\ jpc[j] = "highScore"
    /\ ScanReturns(j, DetectHighScorePools(pools, now, j, nextId[j]), "saveHighScore", "done")

SaveHighScore(j) ==
    /\ jpc[j] = "saveHighScore"
    /\ SaveNext(j, FALSE, "done")

\* An hour passes.
Tick ==
    /\ now < MaxTime
    /\ now' = now + 1
    /\ UNCHANGED <<pools, opps, jpc, jpending, jUpserted, jPublished, cronRuns, nextId>>
    /\ UNCHANGED <<hubVars, sideVars>>

NextWorker ==
    \/ CronDeFiLlama
    \/ StartupFetch
    \/ CronDetection
    \/ \E j \in Job : SweepOk(j)
    \/ \E j \in Job : SweepFail(j)
    \/ \E j \in Job : ScanYieldGaps(j)
    \/ \E j \in Job : SaveYieldGap(j)
    \/ \E j \in Job : ScanTrending(j)
    \/ \E j \in Job : SaveTrending(j)
    \/ \E j \in Job : ScanHighScore(j)
    \/ \E j \in Job : SaveHighScore(j)
    \/ Tick

\* The worker alone: the API server's hub stays as constructed.
SpecWorker == Init /\ [][NextWorker]_vars

(***************************************************************************)
(* Properties of the worker.                                               *)
(***************************************************************************)

\* A pass that has started runOpportunityDetectionJob and not returned.
Detecting(j) == jpc[j] \notin {"idle", "done"}

\* The logical key of an opportunity: its type and the pools it references.
LogicalKey(o) == <<o.type, o.sourcePoolId, o.targetPoolId, o.poolId>>

\* C1: no two opportunity-detection passes run at the same time, the
\* start-up pass included; in particular no two passes are at the expiry
\* sweep together.
C1_NoOverlap ==
    \A i, j \in Job : (Detecting(i) /\ Detecting(j)) => i = j

\* C5: every opportunity of the high-score scan references a stored pool
\* whose score is at least 70 and which meets the TVL and APY floors.
C5_HighScoreMeetsFloors ==
    \A o \in opps :
        o.type = "high-score"
        => \E r \in pools :
               /\ r.id = o.poolId
               /\ r.score >= HighScoreMin
               /\ r.tvl >= MinTVLThreshold
               /\ r.apy >= MinAPYThreshold

\* C6: at most one active opportunity per logical key.
C6_OneActivePerKey ==
    \A a, b \in opps :
        (a.isActive /\ b.isActive /\ LogicalKey(a) = LogicalKey(b)) => a = b

\* C7: a record is active when it enters the table, and no step turns an
\* inactive record active again.
C7_NeverReactivated ==
    [][/\ \A n \in opps' :
              (\A o \in opps : o.id # n.id) => n.isActive
       /\ \A o \in opps : \A n \in opps' :
              (n.id = o.id /\ ~o.isActive) => ~n.isActive]_vars

\* C7 witness: a record was deactivated and the same logical opportunity
\* was detected and stored again afterwards.
C7_Witness ==
    \E o, n \in opps :
        /\ ~o.isActive
        /\ n.isActive
        /\ LogicalKey(n) = LogicalKey(o)
        /\ n.detectedAt > o.expiresAt

\* C8: a successful sweep leaves every record whose expiresAt is in the
\* past inactive, and a sweep of the table it leaves changes no record.
C8_SweepDeactivatesOnce ==
    [][(\E j \in Job : SweepOk(j))
       => /\ \A r \in opps' : r.expiresAt < now => ~r.isActive
          /\ DeactivateExpiredOpportunities(opps', now) = opps']_vars

\* C8 witness: a sweep has just deactivated an expired record.
C8_Witness ==
    \E r \in opps : \E j \in Job :
        /\ r.expiresAt < now
        /\ ~r.isActive
        /\ r.updatedAt = now
        /\ jpc[j] = "yieldGaps"

\* C9: when a pass has returned, every opportunity it upserted, of any of
\* the three scans, has been handed to PublishOpportunityAlert.
C9_UpsertedArePublished ==
    \A j \in Job : jpc[j] = "done" => jUpserted[j] \subseteq jPublished[j]

(***************************************************************************)
(* Part III.  main of the worker: the scheduler's entries, the start-up    *)
(* goroutine and the shutdown sequence.  A job is seen from outside here:  *)
(* it is started and it returns.                                           *)
(***************************************************************************)

\* What the steps of main and of its goroutines leave alone.
besidesMain == <<hubVars, workerVars, ingestVars, evalVars, deadClients>>

\* An entry of the running scheduler fires: the scheduler runs the entry's
\* function in a new goroutine.  The scheduler runs from scheduler.Start()
\* until main calls scheduler.Stop().
EntryFires(e) ==
    /\ mainpc \in {"wait", "signalled"}
    /\ started[e] < MaxCronRuns
    /\ started' = [started EXCEPT ![e] = @ + 1]
    /\ UNCHANGED <<mainpc, startup, finished>>
    /\ UNCHANGED besidesMain

\* A job the scheduler started returns.
EntryReturns(e) ==
    /\ mainpc # "exited"
    /\ finished[e] < started[e]
    /\ finished' = [finished EXCEPT ![e] = @ + 1]
    /\ UNCHANGED <<mainpc, startup, started>>
    /\ UNCHANGED besidesMain

\* The start-up goroutine: runDeFiLlamaJob returns, then runCoinGeckoJob,
\* then runOpportunityDetectionJob.  It runs as long as the process does.
StartupStep ==
    /\ mainpc # "exited"
    /\ startup # "done"
    /\ startup' = CASE startup = "fetch" -> "prices"
                    [] startup = "prices" -> "detect"
                    [] startup = "detect" -> "done"
    /\ UNCHANGED <<mainpc, started, finished>>
    /\ UNCHANGED besidesMain

\* SIGINT or SIGTERM arrives: `<-quit` returns.
Signal ==
    /\ mainpc = "wait"
    /\ mainpc' = "signalled"
    /\ UNCHANGED <<startup, started, finished>>
    /\ UNCHANGED besidesMain

\* scheduler.Stop(): the scheduler starts no further job; the context it
\* returns is done when the jobs it started have returned.
SchedulerStop ==
    /\ mainpc = "signalled"
    /\ mainpc' = "stopping"
    /\ UNCHANGED <<startup, started, finished>>
    /\ UNCHANGED besidesMain

\* `<-stopCtx.Done()` returns and main returns: the process ends, with it
\* every goroutine that is still running.
MainExit ==
    /\ mainpc = "stopping"
    /\ \A e \in Entry : finished[e] = started[e]
    /\ mainpc' = "exited"
    /\ UNCHANGED <<startup, started, finished>>
    /\ UNCHANGED besidesMain

NextMain ==
    \/ \E e \in Entry : EntryFires(e)
    \/ \E e \in Entry : EntryReturns(e)
    \/ StartupStep
    \/ Signal
    \/ SchedulerStop
    \/ MainExit

SpecMain == Init /\ [][NextMain]_vars

\* C11: when the worker has stopped, every cycle has finished: the jobs the
\* scheduler started have returned and the start-up run is through.
C11_InFlightCyclesFinish ==
    mainpc = "exited"
    => /\ \A e \in Entry : finished[e] = started[e]
       /\ startup = "done"

(***************************************************************************)
(* Part IV.  runDeFiLlamaJob step by step: the fetch, the conversion and   *)
(* scoring, the upsert loop, the index and cache refresh, the publish      *)
(* loop.  Run 0 is the call of main's start-up goroutine, the cron         *)
(* scheduler starts runs 1, 2, ...; cron.New(cron.WithSeconds()) has no    *)
(* job wrapper, so runs may overlap.                                       *)
(***************************************************************************)

\* What one response of the provider says of a pool id: nothing, the pool,
\* the pool under another chain name, the pool with its liquidity gone.
Listing == {"absent", "listed", "moved", "drained"}
MovedChain == "ethereum"

\* FetchPools: the records of a response (poolsResp.Data).
Fetched(listing) ==
    {CASE listing[p] = "drained" -> [Upstream(p) EXCEPT !.tvl = DrainedTVL]
       [] listing[p] = "moved" -> [Upstream(p) EXCEPT !.chain = MovedChain]
       [] OTHER -> Upstream(p) : p \in {q \in PoolId : listing[q] # "absent"}}

\* runDeFiLlamaJob: filteredPools, then modelPools with their scores.
ModelPools(fetched) ==
    {[ToPoolModel(p) EXCEPT !.score = CalculateScore(ToPoolModel(p))] :
        p \in {q \in fetched : q.tvl >= MinTVLThreshold}}

\* What the steps of runDeFiLlamaJob leave alone besides table pools.
besidesIngest == <<hubVars, opps, jpc, jpending, jUpserted, jPublished,
                   cronRuns, nextId, now, mainVars, evalVars, deadClients>>

\* A run of the job begins: the scheduler's "0 */3 * * * *" entry fires, or
\* the start-up goroutine calls the job.
RunDeFiLlamaJob(i) ==
    /\ ipc[i] = "idle"
    /\ i > 1 => ipc[i - 1] # "idle"
    /\ ipc' = [ipc EXCEPT ![i] = "fetch"]
    /\ UNCHANGED <<pools, ibatch, itodo, iUpserted, iFailed, iPublished,
                   iInvalidated>>
    /\ UNCHANGED besidesIngest

\* client.FetchPools returns an error (the rate limiter, the third failed
\* attempt, a status other than 200, a body that does not decode): the job
\* logs it and returns.
FetchPoolsFails(i) ==
    /\ ipc[i] = "fetch"
    /\ ipc' = [ipc EXCEPT ![i] = "done"]
    /\ UNCHANGED <<pools, ibatch, itodo, iUpserted, iFailed, iPublished,
                   iInvalidated>>
    /\ UNCHANGED besidesIngest

\* client.FetchPools returns a response; the job filters by TVL, converts
\* and scores, and stands before the upsert loop.
FetchPoolsReturns(i) ==
    /\ ipc[i] = "fetch"
    /\ \E listing \in [PoolId -> Listing] :
          LET modelPools == ModelPools(Fetched(listing))
          IN  /\ ibatch' = [ibatch EXCEPT ![i] = modelPools]
              /\ itodo' = [itodo EXCEPT ![i] = modelPools]
              /\ ipc' = [ipc EXCEPT ![i] =
                             IF modelPools = {} THEN "refresh" ELSE "upsert"]
    /\ UNCHANGED <<pools, iUpserted, iFailed, iPublished, iInvalidated>>
    /\ UNCHANGED besidesIngest

\* A faulty upsert loop that gives the batch up at the first failed upsert;
\* C20 is tested against it.
UpsertPoolAborts(i) ==
    /\ ipc[i] = "upsert"
    /\ \E pool \in itodo[i] :
          /\ iFailed' = [iFailed EXCEPT ![i] = @ \cup {pool.id}]
          /\ itodo' = [itodo EXCEPT ![i] = {}]
          /\ ipc' = [ipc EXCEPT ![i] = "refresh"]
    /\ UNCHANGED <<pools, ibatch, iUpserted, iPublished, iInvalidated>>
    /\ UNCHANGED besidesIngest

\* One turn of the upsert loop, pgRepo.UpsertPool fails: a warning, the
\* loop goes on.
UpsertPoolFails(i) ==
    /\ ipc[i] = "upsert"
    /\ \E pool \in itodo[i] :
          /\ iFailed' = [iFailed EXCEPT ![i] = @ \cup {pool.id}]
          /\ itodo' = [itodo EXCEPT ![i] = @ \ {pool}]
          /\ ipc' = [ipc EXCEPT ![i] =
                         IF itodo[i] = {pool} THEN "refresh" ELSE "upsert"]
    /\ UNCHANGED <<pools, ibatch, iUpserted, iPublished, iInvalidated>>
    /\ UNCHANGED besidesIngest

\* One turn of the upsert loop, pgRepo.UpsertPool succeeds.
UpsertPoolOk(i) ==
    /\ ipc[i] = "upsert"
    /\ \E pool \in itodo[i] :
          /\ pools' = UpsertPool(pools, pool)
          /\ iUpserted' = [iUpserted EXCEPT ![i] = @ \cup {pool.id}]
          /\ itodo' = [itodo EXCEPT ![i] = @ \ {pool}]
          /\ ipc' = [ipc EXCEPT ![i] =
                         IF itodo[i] = {pool} THEN "refresh" ELSE "upsert"]
    /\ UNCHANGED <<ibatch, iFailed, iPublished, iInvalidated>>
    /\ UNCHANGED besidesIngest

\* A faulty job that goes from the upsert loop to the publish loop without
\* the calls in between; C25 is tested against it.
PublishUnrefreshed(i) ==
    /\ ipc[i] = "refresh"
    /\ itodo' = [itodo EXCEPT ![i] = ibatch[i]]
    /\ ipc' = [ipc EXCEPT ![i] = IF ibatch[i] = {} THEN "done" ELSE "publish"]
    /\ UNCHANGED <<pools, ibatch, iUpserted, iFailed, iPublished, iInvalidated>>
    /\ UNCHANGED besidesIngest

\* BulkIndexPools, SetMultiplePools, InvalidateAllPoolsCache and
\* InvalidateStatsCache (a failure of any is a warning); the job stands
\* before the publish loop over modelPools.
RefreshCaches(i) ==
    /\ ipc[i] = "refresh"
    /\ iInvalidated' = [iInvalidated EXCEPT ![i] = TRUE]
    /\ itodo' = [itodo EXCEPT ![i] = ibatch[i]]
    /\ ipc' = [ipc EXCEPT ![i] = IF ibatch[i] = {} THEN "done" ELSE "publish"]
    /\ UNCHANGED <<pools, ibatch, iUpserted, iFailed, iPublished>>
    /\ UNCHANGED besidesIngest

\* One turn of the publish loop: redisRepo.PublishPoolUpdate.
PublishPoolUpdate(i) ==
    /\ ipc[i] = "publish"
    /\ \E pool \in itodo[i] :
          /\ iPublished' = [iPublished EXCEPT ![i] = @ \cup {pool.id}]
          /\ itodo' = [itodo EXCEPT ![i] = @ \ {pool}]
          /\ ipc' = [ipc EXCEPT ![i] =
                         IF itodo[i] = {pool} THEN "done" ELSE "publish"]
    /\ UNCHANGED <<pools, ibatch, iUpserted, iFailed, iInvalidated>>
    /\ UNCHANGED besidesIngest

NextIngest ==
    \/ \E i \in Job : RunDeFiLlamaJob(i)
    \/ \E i \in Job : FetchPoolsFails(i)
    \/ \E i \in Job : FetchPoolsReturns(i)
    \/ \E i \in Job : UpsertPoolFails(i)
    \/ \E i \in Job : UpsertPoolOk(i)
    \/ \E i \in Job : RefreshCaches(i)
    \/ \E i \in Job : PublishPoolUpdate(i)

SpecIngest == Init /\ [][NextIngest]_vars

\* C14: the score of every row of table pools is CalculateScore of the
\* row's own apy, tvl, 30-day mean apy, 24h apy change and chain.
C14_ScoreMatchesFields ==
    \A r \in pools : r.score = CalculateScore(r)

\* C19: a run of the job that has returned has gone through the rest of
\* the cycle, whatever its fetch returned: it has refreshed the index and
\* the caches.
C19_FailedFetchProceeds ==
    \A i \in Job : ipc[i] = "done" => iInvalidated[i]

C29_PublishedOnlyIfUpserted ==
    \A i \in Job : iPublished[i] \subseteq iUpserted[i]

(***************************************************************************)
(* main's start-up goroutine alone, step by step: runDeFiLlamaJob, then    *)
(* runCoinGeckoJob (token prices, no table of the model), then             *)
(* runOpportunityDetectionJob.                                             *)
(***************************************************************************)

\* runDeFiLlamaJob has returned; the goroutine calls
\* runOpportunityDetectionJob.
StartupDetect ==
    /\ ipc[0] = "done"
    /\ jpc[0] = "idle"
    /\ jpc' = [jpc EXCEPT ![0] = "sweep"]
    /\ UNCHANGED <<pools, opps, jpending, jUpserted, jPublished, cronRuns,
                   nextId, now>>
    /\ UNCHANGED <<hubVars, sideVars>>

NextStartup ==
    \/ RunDeFiLlamaJob(0)
    \/ FetchPoolsFails(0)
    \/ FetchPoolsReturns(0)
    \/ UpsertPoolFails(0)
    \/ UpsertPoolOk(0)
    \/ RefreshCaches(0)
    \/ PublishPoolUpdate(0)
    \/ StartupDetect
    \/ SweepOk(0)
    \/ SweepFail(0)
    \/ ScanYieldGaps(0)
    \/ SaveYieldGap(0)
    \/ ScanTrending(0)
    \/ SaveTrending(0)
    \/ ScanHighScore(0)
    \/ SaveHighScore(0)

SpecStartup == Init /\ [][NextStartup]_vars

\* The positions of a detection pass inside a save loop.
SaveLoops == {"saveYieldGaps", "saveTrending", "saveHighScore"}

\* C20: a failed upsert of one record does not end the batch.  Once a run
\* of the ingestion job is past its upsert loop, every pool of its batch
\* has been either stored or logged as failed, never both, and the stored
\* ones are in the table; a detection pass leaves a save loop only when
\* nothing of the scan's slice is left to save, and the opportunities it
\* stored are in the table.
C20_FailedRecordSkipped ==
    /\ \A i \in Job :
           /\ ipc[i] \in {"refresh", "publish", "done"}
                  => iUpserted[i] \cup iFailed[i] = {r.id : r \in ibatch[i]}
           /\ iUpserted[i] \cap iFailed[i] = {}
           /\ \A id \in iUpserted[i] : \E r \in pools : r.id = id
    /\ \A j \in Job :
           /\ jpc[j] \notin SaveLoops => jpending[j] = <<>>
           /\ \A id \in jUpserted[j] : \E o \in opps : o.id = id

\* C20 witness: the start-up goroutine has returned from both jobs; one
\* pool of the batch failed and another was stored, one opportunity failed
\* and another was stored.
C20_Witness ==
    /\ ipc[0] = "done"
    /\ iFailed[0] # {}
    /\ iUpserted[0] # {}
    /\ jpc[0] = "done"
    /\ jUpserted[0] # {}
    /\ Cardinality(jUpserted[0]) < nextId[0] - 1

(***************************************************************************)
(* Part V.  Functions on their own: the state is the argument of one call  *)
(* and, once the call has returned, its result.                            *)
(***************************************************************************)

\* What a call of a function under test leaves alone.
besidesEval == <<hubVars, workerVars, mainVars, ingestVars, deadClients>>

\* Everything but the function under test as constructed.
IdleProgram == InitHub /\ deadClients = {} /\ IdleWorker /\ InitMain /\ IdleIngest

\* The chain names of the ratings map and one the maps do not list.
Chain == DOMAIN chainSecurityRatings \cup {"linea"}

\* The row runDeFiLlamaJob stores for pool p when the provider reports it
\* on chain c.
PoolOn(p, c) ==
    LET pool == ToPoolModel([Upstream(p) EXCEPT !.chain = c])
    IN  [pool EXCEPT !.score = CalculateScore(pool)]

\* ---- DetectYieldGaps ----
\* Table pools holding pool A (USDC, apy 3.5, tvl 5e8), pool B (usdc-weth,
\* apy 4.2, tvl 3e8) or both, each on any chain.
YieldGapTables ==
    {{PoolOn(1, a), PoolOn(2, b)} : a \in Chain, b \in Chain}
    \cup {{PoolOn(p, c)} : p \in {1, 2}, c \in Chain}

InitYieldGaps == IdleProgram /\ fnArg \in YieldGapTables /\ fnRes = NoValue

\* s.DetectYieldGaps(ctx) on the table returns a slice.
CallDetectYieldGaps ==
    /\ fnRes = NoValue
    /\ \E s \in DetectYieldGaps(fnArg, 0, 0, 1) : fnRes' = {s}
    /\ UNCHANGED fnArg
    /\ UNCHANGED besidesEval

SpecYieldGaps == InitYieldGaps /\ [][CallDetectYieldGaps]_vars

\* The chains whose gas estimate is a dollar or less.
CheapGasChain == {"arbitrum", "optimism", "polygon", "bsc", "avalanche",
                  "fantom", "base", "gnosis"}

\* The slice holds one opportunity, of APY difference 0.7 towards pool B.
OneGapTowardsB(s) ==
    /\ Len(s) = 1
    /\ s[1].apyDifference = 70
    /\ s[1].targetPoolId = 2
    /\ s[1].sourcePoolId = 1

MaxLimit == 2

\* Rows of table pools: three assets with two pools each on chains of
\* different gas cost, all TVLs different, two equal scores.
PoolRow(id, chain, symbol, tvl, apy, score) ==
    [id |-> id, chain |-> chain, symbol |-> symbol, tvl |-> tvl, apy |-> apy,
     apyMean30d |-> apy, apyChange24h |-> 0, score |-> score]
Catalogue ==
    {PoolRow(1, "arbitrum", <<"USDC">>, 500000000, 350, 5416),
     PoolRow(2, "arbitrum", <<"usdc", "-", "weth">>, 300000000, 420, 5810),
     PoolRow(3, "polygon", <<"WETH">>, 400000000, 200, 7200),
     PoolRow(4, "optimism", <<"WETH">>, 200000000, 600, 7200),
     PoolRow(5, "ethereum", <<"DAI">>, 100000000, 900, 8100),
     PoolRow(6, "base", <<"dai">>, 600000000, 1900, 6500)}

ScanCalls ==
    [scan : {"yield-gap"}, tbl : SUBSET Catalogue,
     limit : 1..MaxLimit \cup {YieldGapLimit}]
    \cup [scan : {"high-score"}, tbl : SUBSET Catalogue,
          limit : 1..MaxLimit \cup {HighScoreLimit}]

InitScans == IdleProgram /\ fnArg \in ScanCalls /\ fnRes = NoValue

CallDetectYieldGapsTop ==
    /\ fnRes = NoValue
    /\ fnArg.scan = "yield-gap"
    /\ \E s \in DetectYieldGapsTop(fnArg.tbl, 0, 0, 1, fnArg.limit) : fnRes' = {s}
    /\ UNCHANGED fnArg
    /\ UNCHANGED besidesEval

CallDetectHighScorePoolsTop ==
    /\ fnRes = NoValue
    /\ fnArg.scan = "high-score"
    /\ \E s \in DetectHighScorePoolsTop(fnArg.tbl, 0, 0, 1, fnArg.limit) :
          fnRes' = {s}
    /\ UNCHANGED fnArg
    /\ UNCHANGED besidesEval

NextScans == CallDetectYieldGapsTop \/ CallDetectHighScorePoolsTop

SpecScans == InitScans /\ [][NextScans]_vars

\* C16: whatever the table holds, the yield-gap scan returns at most its
\* cap (50) of opportunities, by potentialProfit descending, and the
\* high-score scan at most its cap (100), by score descending.
C16_ScansSortedAndCapped ==
    \A s \in fnRes :
        /\ Len(s) <= fnArg.limit
        /\ \A i \in 1..(Len(s) - 1) :
               IF fnArg.scan = "yield-gap"
               THEN s[i].potentialProfit >= s[i + 1].potentialProfit
               ELSE s[i].score >= s[i + 1].score

\* C16 witness: a table with three yield gaps scanned under a cap of two
\* has returned the two of greater profit, in that order.
C16_Witness ==
    /\ fnArg.scan = "yield-gap"
    /\ fnArg.tbl = Catalogue
    /\ \E s \in fnRes :
          /\ Len(s) = fnArg.limit
          /\ Len(s) = 2
          /\ s[1].potentialProfit > s[2].potentialProfit

\* ---- CalculateScore ----
\* Pools for the calls: APYs from 0 to 999999% (in basis points), TVLs from
\* 0 to a billion dollars, with and without a 30-day mean, 24h changes
\* within and beyond +/-100%, a top-rated, a low-rated and an unrated
\* chain.
ScorePools ==
    [apy : {0, 350, 900, 999900, 99999900},
     tvl : {0, 1, 1000, 300000000, 1000000000},
     apyMean30d : {0, 350, 900},
     apyChange24h : {0 - 20000, 0, 6000, 20000},
     chain : {"ethereum", "harmony", "linea"}]

\* Weights a service may be configured with (SCORE_WEIGHT_* are parsed as
\* floats without any check): the defaults, none, negative ones, ones far
\* above 1, and both signs together.
ScoreWeights ==
    {Scoring,
     [apy |-> 0, tvl |-> 0, stability |-> 0, trend |-> 0],
     [apy |-> 0 - 100, tvl |-> 0 - 100, stability |-> 0 - 100, trend |-> 0 - 100],
     [apy |-> 10000, tvl |-> 10000, stability |-> 10000, trend |-> 10000],
     [apy |-> 10000, tvl |-> 0 - 10000, stability |-> 0 - 10000, trend |-> 10000],
     [apy |-> 50, tvl |-> 50, stability |-> 0, trend |-> 0],
     [apy |-> 60, tvl |-> 60, stability |-> 60, trend |-> 60]}

InitScore ==
    /\ IdleProgram
    /\ fnArg \in [pool : ScorePools, weights : ScoreWeights]
    /\ fnRes = NoValue

\* NewService(weights).CalculateScore(&pool) returns.
CallCalculateScore ==
    /\ fnRes = NoValue
    /\ fnRes' = {ScoreWith(fnArg.pool, fnArg.weights)}
    /\ UNCHANGED fnArg
    /\ UNCHANGED besidesEval

SpecScore == InitScore /\ [][CallCalculateScore]_vars

ScoreAsStated(pool, weights) ==
    LET weighted == (weights.apy * normalizeAPY(pool.apy)
                     + weights.tvl * normalizeTVL(pool.tvl)
                     + weights.stability * calculateStability(pool.apy, pool.apyMean30d)
                     + weights.trend * normalizeTrend(pool.apyChange24h)) \div 100
        clamp01 == Max(0, Min(10000, weighted))
    IN  Max(0, Min(10000, (clamp01 * (100 + getChainSecurityRating(pool.chain))) \div 200))

\* The sum of the weights above zero, in percent.
PositiveTotal(weights) ==
    Max(0, weights.apy) + Max(0, weights.tvl)
        + Max(0, weights.stability) + Max(0, weights.trend)

\* C26 as stated: for every weight configuration CalculateScore returns
\* clamp01(weighted sum) * chainMultiplier * 100 clamped to [0, 100].
C26_ScoreClampsSumFirst ==
    \A score \in fnRes : score = ScoreAsStated(fnArg.pool, fnArg.weights)

\* C26 amended: for every weight configuration whose positive weights sum
\* to at most 1 (the defaults do), CalculateScore returns
\* clamp01(weighted sum) * chainMultiplier * 100 clamped to [0, 100].
C26_ScoreClampsSumFirstUpToOne ==
    \A score \in fnRes :
        PositiveTotal(fnArg.weights) <= 100 =>
            score = ScoreAsStated(fnArg.pool, fnArg.weights)

\* C26 witness: the call has returned a score strictly between 0 and 100
\* for weights that sum to 1 and a pool on a chain whose multiplier is
\* below 1.
C26_Witness ==
    /\ PositiveTotal(fnArg.weights) = 100
    /\ getChainSecurityRating(fnArg.pool.chain) < 100
    /\ \E score \in fnRes : 0 < score /\ score < 10000

\* ---- CalculateRiskLevel ----
\* A pool, and the APY and TVL of a second pool that is the first one with
\* its APY not lower and its TVL not higher.  The values lie on both sides
\* of every threshold of the function.
RiskAPY == {0, 5000, 10000, 10001, 50000, 50001, 100000}
RiskTVL == {0, 9999, 10000, 99999, 100000, 500000000}
RiskCalls ==
    {c \in [pool : [apy : RiskAPY, tvl : RiskTVL, score : {0, 2999, 3000, 8000},
                    chain : {"ethereum", "cronos", "harmony", "linea"}],
            apy : RiskAPY, tvl : RiskTVL] :
        c.apy >= c.pool.apy /\ c.tvl <= c.pool.tvl}

InitRisk == IdleProgram /\ fnArg \in RiskCalls /\ fnRes = NoValue

\* CalculateRiskLevel of the first pool and of the second have returned.
CallCalculateRiskLevel ==
    /\ fnRes = NoValue
    /\ fnRes' = {<<CalculateRiskLevel(fnArg.pool),
                   CalculateRiskLevel([fnArg.pool EXCEPT !.apy = fnArg.apy,
                                                          !.tvl = fnArg.tvl])>>}
    /\ UNCHANGED fnArg
    /\ UNCHANGED besidesEval

SpecRisk == InitRisk /\ [][CallCalculateRiskLevel]_vars

\* models.RiskLevel ordered from low to high.
Tier(level) == CASE level = "low" -> 0 [] level = "medium" -> 1 [] level = "high" -> 2

\* C18: with score and chain held fixed, a pool with a higher APY, a lower
\* TVL or both is never in a lower risk tier than the pool it is compared
\* with.
C18_RiskLevelMonotonic ==
    \A levels \in fnRes : Tier(levels[1]) <= Tier(levels[2])

\* C18 witness: raising the APY past 500% alone has moved a pool from
\* medium to high.
C18_Witness ==
    /\ fnArg.pool.apy <= 50000
    /\ fnArg.apy > 50000
    /\ fnArg.tvl = fnArg.pool.tvl
    /\ fnRes = {<<"medium", "high">>}

\* ---- DetectYieldGaps on groups of more than two pools ----
\* Rows of table pools: five pools filed under USDC (two of them with the
\* highest APY, one a pair whose second token is USDC) and two under ETH,
\* one of them on ethereum.
GapCatalogue ==
    {PoolRow(1, "arbitrum", <<"USDC">>, 500000000, 350, 5416),
     PoolRow(2, "arbitrum", <<"usdc", "-", "ETH">>, 300000000, 420, 5810),
     PoolRow(3, "polygon", <<"USDC">>, 200000000, 1200, 6100),
     PoolRow(4, "fantom", <<"USDC">>, 150000000, 1200, 6000),
     PoolRow(5, "optimism", <<"ARB", "-", "USDC">>, 120000000, 100, 5000),
     PoolRow(6, "polygon", <<"ETH">>, 400000000, 200, 7200),
     PoolRow(7, "ethereum", <<"ETH">>, 900000000, 700, 8000)}

InitGapGroups == IdleProgram /\ fnArg \in SUBSET GapCatalogue /\ fnRes = NoValue

SpecGapGroups == InitGapGroups /\ [][CallDetectYieldGaps]_vars

\* The pools of the table DetectYieldGaps files under `asset`.
AssetGroup(tbl, asset) ==
    {r \in tbl : r.tvl >= MinTVLThreshold /\ normalizeAsset(r.symbol) = asset}

\* C27: every opportunity the yield-gap scan returns has as source a pool
\* of lowest APY and as target a pool of highest APY of one asset group of
\* at least two pools, apyDifference = target APY - source APY, at least
\* YieldGapMinProfit, and potentialProfit > 0.
C27_GapBetweenExtremes ==
    \A s \in fnRes : \A k \in 1..Len(s) :
        LET o == s[k]
            group == AssetGroup(fnArg, o.asset)
        IN  /\ o.type = "yield-gap"
            /\ Cardinality(group) >= 2
            /\ \E lowestPool, highestPool \in group :
                  /\ lowestPool.id = o.sourcePoolId
                  /\ highestPool.id = o.targetPoolId
                  /\ lowestPool # highestPool
                  /\ \A r \in group : lowestPool.apy <= r.apy /\ r.apy <= highestPool.apy
                  /\ o.apyDifference = highestPool.apy - lowestPool.apy
            /\ o.apyDifference >= YieldGapMinProfit
            /\ o.potentialProfit > 0

\* C27 witness: the scan has returned an opportunity for a group of at
\* least four pools, and none for a second group of two pools whose gap
\* ends on ethereum.
C27_Witness ==
    \E s \in fnRes :
        /\ Len(s) = 1
        /\ Cardinality(AssetGroup(fnArg, s[1].asset)) >= 4
        /\ Cardinality(AssetGroup(fnArg, <<"ETH">>)) = 2

\* ---- groupPoolsByAsset / normalizeAsset ----
\* Pool symbols as the provider writes them: one token, or two tokens around
\* a separator, and two symbols with two kinds of separator.
AssetToken == {"USDC", "ETH", "ARB", "usdc"}

AssetSymbols ==
    {<<a>> : a \in AssetToken}
    \cup {<<a, sep, b>> : a \in AssetToken, sep \in Range(separators), b \in AssetToken}
    \cup {<<"ARB", "/", "OP", "-", "GMX">>, <<"ARB", "_", "OP", "/", "GMX">>}

\* The slice of two pools groupPoolsByAsset is called with.
AssetLists ==
    {<<[id |-> 1, symbol |-> a], [id |-> 2, symbol |-> b]>> :
        a \in AssetSymbols, b \in AssetSymbols}

InitAssets == IdleProgram /\ fnArg \in AssetLists /\ fnRes = NoValue

\* groupPoolsByAsset(pools) returns the map from asset to pools.
CallGroupPoolsByAsset ==
    /\ fnRes = NoValue
    /\ fnRes' = {groupPoolsByAsset(fnArg)}
    /\ UNCHANGED fnArg
    /\ UNCHANGED besidesEval

SpecAssets == InitAssets /\ [][CallGroupPoolsByAsset]_vars

\* The rule as the claim words it, on the upper-cased symbol: the symbol
\* itself when it is an entry of the single-asset list, otherwise what
\* precedes the first "-", "/" or "_".
BaseAssetAsStated(sym) ==
    LET symbol == [i \in 1..Len(sym) |-> ToUpper(sym[i])]
        cuts == {i \in 1..Len(symbol) : symbol[i] \in Range(separators)}
    IN  IF Len(symbol) = 1 /\ symbol[1] \in Range(singleAssets)
        THEN symbol
        ELSE IF cuts # {}
        THEN SubSeq(symbol, 1, (CHOOSE i \in cuts : \A h \in cuts : i <= h) - 1)
        ELSE symbol

\* C24: the key under which groupPoolsByAsset files a pool is its symbol
\* when the symbol is an entry of the single-asset list and otherwise the
\* first token of the symbol split on "-", "/" or "_"; two pools are in one
\* group exactly when that rule gives them the same base asset.
C24_BaseAssetIsExactOrFirstToken ==
    \A groups \in fnRes :
        /\ \A a \in DOMAIN groups : \A r \in groups[a] :
               a = BaseAssetAsStated(r.symbol)
        /\ \A a \in DOMAIN groups : \A r \in Range(fnArg) :
               BaseAssetAsStated(r.symbol) = a => r \in groups[a]

\* ---- FetchPools (DeFiLlama) and FetchPrices (CoinGecko) ----
\* maxRetries of both clients.
maxRetries == 3

\* What c.httpClient.Do(req) gives on one attempt: an error (no response),
\* or a response with status 429, 500 or 200.
Outcome == {"error", "429", "500", "200"}

\* A call: the client, whether tokenIDs is empty (FetchPrices only), what
\* rateLimiter.Wait returns, what each attempt would give, and the attempt
\* after which ctx is cancelled while the call waits for its backoff
\* (0: ctx is not cancelled).
FetchCalls ==
    [client : {"pools", "prices"}, tokenIDs : {0, 1}, limiter : {"ok", "error"},
     outcomes : [1..maxRetries -> Outcome], cancelAfter : 0..(maxRetries - 1)]

\* The attempt is failed and the loop would go round again: Do returned an
\* error, or (FetchPrices) the status is 429.
Retried(client, outcome) ==
    outcome = "error" \/ (client = "prices" /\ outcome = "429")

\* The backoff after a failed attempt, in seconds: attempt * attempt after
\* an error, attempt * 10 after a 429.
Backoff(outcome, attempt) ==
    IF outcome = "error" THEN attempt * attempt ELSE attempt * 10

\* A faulty loop that waits out its backoff without listening to
\* ctx.Done(); C28 is tested against it.
FetchDeafToContext(call) ==
    LET last == CHOOSE k \in 1..maxRetries :
                    /\ \/ k = maxRetries
                       \/ ~Retried(call.client, call.outcomes[k])
                    /\ \A h \in 1..(k - 1) : Retried(call.client, call.outcomes[h])
        waits == [h \in 1..(last - 1) |-> Backoff(call.outcomes[h], h)]
    IN  IF call.client = "prices" /\ call.tokenIDs = 0
        THEN [attempts |-> 0, waits |-> <<>>, result |-> "ok"]
        ELSE IF call.limiter = "error"
        THEN [attempts |-> 0, waits |-> <<>>, result |-> "rate limiter error"]
        ELSE [attempts |-> last, waits |-> waits,
              result |-> IF Retried(call.client, call.outcomes[last])
                         THEN "failed after attempts"
                         ELSE IF call.outcomes[last] = "200" THEN "ok"
                         ELSE "unexpected status code"]

\* FetchPools / FetchPrices: the number of calls of httpClient.Do, the
\* backoffs waited in full, and what is returned.  The loop ends at the
\* first attempt that is not retried, at attempt maxRetries, or in the
\* backoff in which ctx.Done() is ready before the timer.
Fetch(call) ==
    LET last == CHOOSE k \in 1..maxRetries :
                    /\ \/ k = maxRetries
                       \/ ~Retried(call.client, call.outcomes[k])
                       \/ k = call.cancelAfter
                    /\ \A h \in 1..(k - 1) :
                          Retried(call.client, call.outcomes[h]) /\ h # call.cancelAfter
        waits == [h \in 1..(last - 1) |-> Backoff(call.outcomes[h], h)]
    IN  IF call.client = "prices" /\ call.tokenIDs = 0
        THEN [attempts |-> 0, waits |-> <<>>, result |-> "ok"]
        ELSE IF call.limiter = "error"
        THEN [attempts |-> 0, waits |-> <<>>, result |-> "rate limiter error"]
        ELSE [attempts |-> last, waits |-> waits,
              result |-> IF Retried(call.client, call.outcomes[last])
                         THEN IF last = maxRetries THEN "failed after attempts"
                              ELSE "ctx.Err"
                         ELSE IF call.outcomes[last] = "200" THEN "ok"
                         ELSE "unexpected status code"]

InitFetch == IdleProgram /\ fnArg \in FetchCalls /\ fnRes = NoValue

\* c.FetchPools(ctx) or c.FetchPrices(ctx, tokenIDs) returns.
CallFetch ==
    /\ fnRes = NoValue
    /\ fnRes' = {Fetch(fnArg)}
    /\ UNCHANGED fnArg
    /\ UNCHANGED besidesEval

SpecFetch == InitFetch /\ [][CallFetch]_vars

\* The call made at most three attempts, none after a 200, and none after
\* the backoff in which ctx was cancelled, from which it returned an error.
BoundedAttempts(call, r) ==
    /\ r.attempts <= 3
    /\ \A h \in 1..(r.attempts - 1) : call.outcomes[h] # "200"
    /\ (r.attempts >= 1 /\ call.outcomes[r.attempts] = "200") => r.result = "ok"
    /\ \A h \in 1..r.attempts :
          (h = call.cancelAfter /\ Retried(call.client, call.outcomes[h]))
              => r.attempts = h /\ r.result = "ctx.Err"

\* Each backoff is longer than the one before.
GrowingBackoff(r) ==
    \A h \in 2..Len(r.waits) : r.waits[h] > r.waits[h - 1]

\* C28 as stated: every call of FetchPools or FetchPrices returns after at
\* most 3 attempts, stops at the first successful response, waits a
\* growing backoff between failed attempts and returns an error without
\* another attempt when ctx is cancelled during a backoff.
C28_FetchBoundedGrowingBackoff ==
    \A r \in fnRes : BoundedAttempts(fnArg, r) /\ GrowingBackoff(r)

\* C28 amended: the same, the backoff growing unless a 429 from the price
\* provider is followed by a transport error.
C28_FetchBoundedBackoffPerKind ==
    \A r \in fnRes :
        /\ BoundedAttempts(fnArg, r)
        /\ ~(fnArg.outcomes[1] = "429" /\ fnArg.outcomes[2] = "error")
               => GrowingBackoff(r)

\* C28 witness: a call has failed twice, waited two backoffs and got a 200
\* at its third attempt.
C28_Witness ==
    \E r \in fnRes :
        /\ r.attempts = 3
        /\ Len(r.waits) = 2
        /\ r.result = "ok"

====
